---- MODULE Spec2Model ----
(***************************************************************************)
(* Model of tunehoard's track resolution core.                             *)
(*                                                                         *)
(* TrackMatcher.match (TrackMatcher.ts) is modelled as a state machine     *)
(* with one action per await point: the provider loop of the first pass,   *)
(* the credential refresh and retry, the enrichment call (SmartMatcher)    *)
(* and the provider loop over the enriched query.  The external calls      *)
(* (searchTrack, refreshToken, smartMatcher.match) answer                  *)
(* nondeterministically with every outcome their types allow, including a  *)
(* thrown error.                                                           *)
(*                                                                         *)
(* Confidences are fixed-point hundredths: 0.5 is 50, 0.6 is 60.           *)
(***************************************************************************)
EXTENDS Integers, Sequences, FiniteSets, TLC

(***************************************************************************)
(* Bounds                                                                  *)
(***************************************************************************)
\* number of providers in the services list handed to match
NumServices == 2

(***************************************************************************)
(* Program constants (TrackMatcher.ts), in hundredths                      *)
(***************************************************************************)
CONFIDENCE_THRESHOLD == 50
SMART_MATCH_CONFIDENCE_THRESHOLD == 60

(***************************************************************************)
(* Values                                                                  *)
(***************************************************************************)
\* string | null credentials: NoToken is null (or the empty string, equally
\* falsy), StaleToken is what getToken hands out, FreshToken(k) is the
\* credential the refresher returns on its k-th call for a provider.
NoToken == 0
StaleToken == 1
FreshBase == 10
FreshToken(k) == FreshBase + k

\* T | null is a sequence of length at most one
Null == <<>>
Some(x) == <<x>>

\* confidences a provider may attach to a match: below, at and above the
\* acceptance threshold
MatchConfidences == {45, 50, 95}
\* confidences the enrichment may report: below, at and above the
\* enrichment threshold
SmartConfidences == {55, 60, 90}

ServiceNames == 1..NumServices

\* ParsedTrackData handed to match: rawTitle and rawDescription plus the
\* optional artist/song ("" when absent)
ParsedInputs ==
    { [rawTitle |-> "T", rawDescription |-> "D", artist |-> "", song |-> ""],
      [rawTitle |-> "T", rawDescription |-> "D", artist |-> "A0", song |-> "S0"] }

\* TrackInfo the enrichment derives
EnrichedTrackInfo == [artist |-> "A1", song |-> "S1"]

\* SearchMatch: confidence and service as in the source; viaToken and
\* viaData are provenance tags recording the arguments of the searchTrack
\* call that produced the match (the source's uri/trackInfo are opaque to
\* the orchestrator).
SearchMatchOf(c, s, tok, d) ==
    [confidence |-> c, service |-> s, viaToken |-> tok, viaData |-> d]

\* SearchResult values one searchTrack(d, tok) call on service s may return
SearchResults(s, tok, d) ==
    { [match |-> m, needsReauth |-> r] :
        m \in {Null} \cup { Some(SearchMatchOf(c, s, tok, d)) : c \in MatchConfidences },
        r \in BOOLEAN }

NoResult == [match |-> Null, needsReauth |-> FALSE]

\* SmartMatchResult | null values smartMatcher.match may return
SmartResults ==
    {Null} \cup { Some([trackInfo |-> EnrichedTrackInfo, confidence |-> c]) :
                    c \in SmartConfidences }

VARIABLES
    \* arguments of match
    parsedData, services, getToken, useSmartMatching, refreshToken,
    \* smartMatcher.isAvailable()
    smartAvailable,
    \* locals of match
    pc, pass, idx, data, token, result, refreshedTokens, smartResult, ret,
    \* history of the calls made
    seen, searchCalls, firstToken, final, refreshCalls, reauthFailed,
    smartCalls, pass1Tokens, searchTotal,
    \* the external calls match has issued and not yet seen settle
    outstanding

inputs == <<parsedData, services, getToken, useSmartMatching, refreshToken,
            smartAvailable>>
locals == <<pc, pass, idx, data, token, result, refreshedTokens, smartResult, ret>>
history == <<seen, searchCalls, firstToken, final, refreshCalls, reauthFailed,
             smartCalls, pass1Tokens, searchTotal>>

\* two invocations of match on the shared trackMatcher instance: per
\* invocation the Map created at its entry and its position in the code
VARIABLES caches, tpc, tpass, tidx, ttoken, tresult

twoVars == <<caches, tpc, tpass, tidx, ttoken, tresult>>

\* one SpotifyService.searchTrack call: its argument, its position, the
\* catalog requests issued and the responses received so far, its outcome,
\* and for an accepted candidate the request that produced it, the track
\* and the result list it came from
VARIABLES sData, sPc, sStrategy, sRequests, sResponses, sResult, sVia, sCand,
          sItems

spVars == <<sData, sPc, sStrategy, sRequests, sResponses, sResult, sVia, sCand,
            sItems>>

\* the state outside a single match call
\* findBestTitleMatch and calculateWordOverlap applied to drawn arguments:
\* the function applied (fPc), its arguments, the per-candidate log line of
\* findBestTitleMatch (fLog) and the values returned
VARIABLES fPc, fTracks, fTitle, fDescription, fLog, fMatch,
          fSet1, fSet2, fExtra, fOverlap

fzVars == <<fPc, fTracks, fTitle, fDescription, fLog, fMatch,
            fSet1, fSet2, fExtra, fOverlap>>

\* TrackTitleNormalizer applied to a drawn title (tnPc, tnParsed, tnLog,
\* tnData) and the message handler that normalizes the same title and
\* calls trackMatcher.match (hPc, hData, hMatchCalls)
VARIABLES tnTitle, tnDescription, tnPc, tnParsed, tnLog, tnData,
          hPc, hData, hMatchCalls

tnVars == <<tnTitle, tnDescription, tnPc, tnParsed, tnLog, tnData,
            hPc, hData, hMatchCalls>>

\* one SmartMatcher.match call and the enrichment guard of TrackMatcher.match
\* that reads its result: whether the model is configured, the response of
\* generateContent, the position, the SmartMatchResult | null returned
VARIABLES mAvailable, mResponse, mPc, mResult

smVars == <<mAvailable, mResponse, mPc, mResult>>

\* a Database: the items array and the lookup Map, both holding references
\* into dbHeap, the objects allocated so far,
\* the last call with its outcome, and the ids persist wrote to the file
VARIABLES dbItems, dbLookup, dbHeap, dbCall, dbOutcome, dbFile

dbVars == <<dbItems, dbLookup, dbHeap, dbCall, dbOutcome, dbFile>>

\* the loop of the message handler over the ready connections: the
\* tracksAdded of each connection at the start and now, the position, the
\* connection at hand, the match trackMatcher.match returned for each
\* connection, the addTrack calls made for it, the credential
\* refreshServiceToken returned for it, and the result the handler holds
VARIABLES aBefore, tracksAdded, aPc, aIdx, aMatch, aCalls, aNewToken, aResult

atVars == <<aBefore, tracksAdded, aPc, aIdx, aMatch, aCalls, aNewToken, aResult>>

laterVars == <<smVars, dbVars, atVars>>

notMatch == <<twoVars, spVars, fzVars, tnVars, laterVars>>

vars == <<inputs, locals, history, outstanding, notMatch>>

\* the invocations of the two-invocation specification
Invocations == {1, 2}

\* no searchTrack call of the SpotifyService specification has started
SpIdle ==
    /\ sData = [artist |-> <<>>, song |-> <<>>, rawTitle |-> <<>>,
                rawDescription |-> <<>>]
    /\ sPc = "idle"
    /\ sStrategy = 0
    /\ sRequests = <<>>
    /\ sResponses = <<>>
    /\ sResult = NoResult
    /\ sVia = "none"
    /\ sCand = Null
    /\ sItems = <<>>

\* the ParsedTrackData of an empty title
EmptyParsedData ==
    [rawTitle |-> <<>>, rawDescription |-> <<>>, artist |-> <<>>, song |-> <<>>]

\* no title of the normalizer specification is drawn
TnIdle ==
    /\ tnTitle = <<>>
    /\ tnDescription = <<>>
    /\ tnPc = "idle"
    /\ tnParsed = <<>>
    /\ tnLog = <<>>
    /\ tnData = EmptyParsedData
    /\ hPc = "idle"
    /\ hData = EmptyParsedData
    /\ hMatchCalls = <<>>

\* number of ready connections of the chat
NumConnections == 2

Connections == 1..NumConnections

\* no SmartMatcher.match call has started
SmIdle ==
    /\ mAvailable = FALSE
    /\ mResponse = <<>>
    /\ mPc = "idle"
    /\ mResult = <<>>

\* no Database is constructed
DbIdle ==
    /\ dbItems = <<>>
    /\ dbLookup = <<>>
    /\ dbHeap = <<>>
    /\ dbCall = <<>>
    /\ dbOutcome = "idle"
    /\ dbFile = <<>>

\* no message is handled
AtIdle ==
    /\ aBefore = <<>>
    /\ tracksAdded = <<>>
    /\ aPc = "idle"
    /\ aIdx = 0
    /\ aMatch = <<>>
    /\ aCalls = <<>>
    /\ aNewToken = <<>>
    /\ aResult = <<>>

\* the later specifications at rest
LaterIdle == SmIdle /\ DbIdle /\ AtIdle

\* no function of the matcher-function specification is applied
FzIdle ==
    /\ fPc = "idle"
    /\ fTracks = <<>>
    /\ fTitle = <<>>
    /\ fDescription = <<>>
    /\ fLog = <<>>
    /\ fMatch = <<>>
    /\ fSet1 = {}
    /\ fSet2 = {}
    /\ fExtra = {}
    /\ fOverlap = <<>>

\* no invocation of the two-invocation specification has started
TwoIdle ==
    /\ caches = [i \in Invocations |-> [s \in 1..NumServices |-> NoToken]]
    /\ tpc = [i \in Invocations |-> "idle"]
    /\ tpass = [i \in Invocations |-> 1]
    /\ tidx = [i \in Invocations |-> 1]
    /\ ttoken = [i \in Invocations |-> NoToken]
    /\ tresult = [i \in Invocations |-> NoResult]

\* final outcome codes of a provider in a pass, next to a confidence
Errored == -3
NotSearched == -2
NoCandidate == -1

Init ==
    /\ parsedData \in ParsedInputs
    /\ services = [k \in 1..NumServices |-> k]
    /\ getToken \in [ServiceNames -> {NoToken, StaleToken}]
    /\ useSmartMatching \in BOOLEAN
    /\ refreshToken \in BOOLEAN
    /\ smartAvailable \in BOOLEAN
    /\ pc = "loop"
    /\ pass = 1
    /\ idx = 1
    /\ data = parsedData
    /\ token = NoToken
    /\ result = NoResult
    /\ refreshedTokens = [s \in ServiceNames |-> NoToken]
    /\ smartResult = Null
    /\ ret = Null
    /\ seen = [p \in 1..2 |-> <<>>]
    /\ searchCalls = [s \in ServiceNames |-> 0]
    /\ firstToken = [s \in ServiceNames |-> NoToken]
    /\ final = [s \in ServiceNames |-> NotSearched]
    /\ refreshCalls = [s \in ServiceNames |-> 0]
    /\ reauthFailed = [s \in ServiceNames |-> FALSE]
    /\ smartCalls = 0
    /\ pass1Tokens = [s \in ServiceNames |-> NoToken]
    /\ searchTotal = 0
    /\ outstanding = {}
    /\ TwoIdle
    /\ LaterIdle
    /\ SpIdle
    /\ FzIdle
    /\ TnIdle


(***************************************************************************)
(* TrackMatcher.match                                                      *)
(***************************************************************************)
\* a lookup that ignores the refreshed-credential cache
getEffectiveToken_NoCache(s) == getToken[s]

\* getEffectiveToken: refreshedTokens.get(name) ?? getToken(name)
getEffectiveToken(s) ==
    IF refreshedTokens[s] # NoToken THEN refreshedTokens[s] ELSE getToken[s]

\* the service the for-of loop of a pass visits in its k-th iteration
ServiceAt(p, k) == services[k]

\* an acceptance test that takes any candidate
IsConfident_AnyMatch(r) == r.match # Null

\* an acceptance test that is strict at the threshold
IsConfident_Strict(r) ==
    /\ r.match # Null
    /\ r.match[1].confidence > CONFIDENCE_THRESHOLD

\* result.match && result.match.confidence >= CONFIDENCE_THRESHOLD
IsConfident(r) ==
    /\ r.match # Null
    /\ r.match[1].confidence >= CONFIDENCE_THRESHOLD

\* an enrichment test that takes any result
IsEnriched_AnyResult(sr) == sr # Null

\* smartResult && smartResult.confidence >= SMART_MATCH_CONFIDENCE_THRESHOLD
IsEnriched(sr) ==
    /\ sr # Null
    /\ sr[1].confidence >= SMART_MATCH_CONFIDENCE_THRESHOLD

\* an enrichment guard that ignores the caller's option
ShouldEnrich_IgnoreOption == smartAvailable

\* useSmartMatching && smartMatcher.isAvailable()
ShouldEnrich == useSmartMatching /\ smartAvailable

\* an enriched query rebuilt from the title and the enrichment alone
enrichedData_NoSpread(d, ti) ==
    [rawTitle |-> d.rawTitle, rawDescription |-> "",
     artist |-> ti.artist, song |-> ti.song]

\* { ...parsedData, artist: enriched.artist, song: enriched.song }
enrichedData(d, ti) ==
    [rawTitle |-> d.rawTitle, rawDescription |-> d.rawDescription,
     artist |-> ti.artist, song |-> ti.song]

\* outcome code of a result a provider's iteration ended with
OutcomeOf(r) == IF r.match = Null THEN NoCandidate ELSE r.match[1].confidence

\* the current service
cur == ServiceAt(pass, idx)

\* an external call in flight: searchTrack and refreshToken on a service,
\* smartMatch on the enrichment
Call(kind, s, tok) == [call |-> kind, service |-> s, token |-> tok]

\* the call match is suspended on (its await) at the current position
Awaited ==
    CASE pc \in {"search", "retry"} -> Call("searchTrack", cur, token)
      [] pc = "refresh" -> Call("refreshToken", cur, NoToken)
      [] pc = "smart" -> Call("smartMatch", 0, NoToken)

\* a continuation that runs while the call it followed is still in flight
Settled_Raced == outstanding

\* the calls still in flight when the continuation of an await runs: the
\* awaited call has settled
Settled == outstanding \ {Awaited}

\* return value: pc = "done" with ret the SearchMatch | null
Return(m) ==
    /\ pc' = "done"
    /\ ret' = m
    /\ token' = NoToken
    /\ result' = NoResult
    /\ UNCHANGED <<pass, idx, data>>

\* end of one iteration of the for-of loop: on to the next service
Continue ==
    /\ pc' = "loop"
    /\ idx' = idx + 1
    /\ token' = NoToken
    /\ result' = NoResult
    /\ UNCHANGED <<pass, data, ret>>

\* the tail of the try block once the final result r of the service is
\* known: return a confident match, else fall out of the iteration
Conclude(r) ==
    /\ final' = [final EXCEPT ![cur] = OutcomeOf(r)]
    /\ IF IsConfident(r) THEN Return(r.match) ELSE Continue

\* an iteration without the try/catch: the error leaves match
CatchServiceError_Rethrow ==
    /\ final' = [final EXCEPT ![cur] = Errored]
    /\ pc' = "raised"
    /\ UNCHANGED <<pass, idx, data, token, result, ret>>

\* catch (error) of a provider iteration: log and go on with the next service
CatchServiceError ==
    /\ final' = [final EXCEPT ![cur] = Errored]
    /\ Continue

\* a loop head without the `if (!token) continue` guard
NextService_NoSkip ==
    /\ pc = "loop"
    /\ UNCHANGED notMatch
    /\ idx <= Len(services)
    /\ seen' = [seen EXCEPT ![pass] = Append(@, cur)]
    /\ token' = getEffectiveToken(cur)
    /\ pc' = "search"
    /\ outstanding' = outstanding \cup {Call("searchTrack", cur, getEffectiveToken(cur))}
    /\ UNCHANGED <<inputs, idx, pass, data, result, refreshedTokens, smartResult, ret>>
    /\ UNCHANGED <<searchCalls, firstToken, final, refreshCalls, reauthFailed,
                   smartCalls, pass1Tokens, searchTotal>>

\* for (const service of services): getEffectiveToken, skip when no token
NextService ==
    /\ pc = "loop"
    /\ UNCHANGED notMatch
    /\ idx <= Len(services)
    /\ seen' = [seen EXCEPT ![pass] = Append(@, cur)]
    /\ LET tok == getEffectiveToken(cur) IN
         IF tok = NoToken
         THEN /\ idx' = idx + 1
              /\ UNCHANGED <<pc, token, outstanding>>
         ELSE /\ token' = tok
              /\ pc' = "search"
              /\ outstanding' = outstanding \cup {Call("searchTrack", cur, tok)}
              /\ UNCHANGED idx
    /\ UNCHANGED <<inputs, pass, data, result, refreshedTokens, smartResult, ret>>
    /\ UNCHANGED <<searchCalls, firstToken, final, refreshCalls, reauthFailed,
                   smartCalls, pass1Tokens, searchTotal>>

\* let result = await service.searchTrack(data, token), followed by the
\* needsReauth test
SearchTrack ==
    /\ pc = "search"
    /\ UNCHANGED notMatch
    /\ searchCalls' = [searchCalls EXCEPT ![cur] = @ + 1]
    /\ firstToken' = [firstToken EXCEPT ![cur] = token]
    /\ \E r \in SearchResults(cur, token, data) :
         IF r.needsReauth /\ refreshToken
         THEN /\ result' = r
              /\ pc' = "refresh"
              /\ outstanding' = Settled \cup {Call("refreshToken", cur, NoToken)}
              /\ UNCHANGED <<pass, idx, data, token, ret, final, reauthFailed>>
         ELSE /\ reauthFailed' = [reauthFailed EXCEPT ![cur] = @ \/ r.needsReauth]
              /\ outstanding' = Settled
              /\ Conclude(r)
    /\ UNCHANGED <<inputs, refreshedTokens, smartResult>>
    /\ searchTotal' = searchTotal + 1
    /\ UNCHANGED <<seen, refreshCalls, smartCalls, pass1Tokens>>

\* service.searchTrack rejects, on the first call or on the retry
SearchTrackThrows ==
    /\ pc \in {"search", "retry"}
    /\ UNCHANGED notMatch
    /\ searchCalls' = [searchCalls EXCEPT ![cur] = @ + 1]
    /\ firstToken' = [firstToken EXCEPT ![cur] = IF pc = "search" THEN token ELSE @]
    /\ CatchServiceError
    /\ outstanding' = Settled
    /\ UNCHANGED <<inputs, refreshedTokens, smartResult>>
    /\ searchTotal' = searchTotal + 1
    /\ UNCHANGED <<seen, refreshCalls, reauthFailed, smartCalls, pass1Tokens>>

\* const newToken = await refreshToken(service.name); if (newToken) cache it
RefreshToken ==
    /\ pc = "refresh"
    /\ UNCHANGED notMatch
    /\ refreshCalls' = [refreshCalls EXCEPT ![cur] = @ + 1]
    /\ \E newToken \in {NoToken, FreshToken(refreshCalls[cur] + 1)} :
         IF newToken # NoToken
         THEN /\ refreshedTokens' = [refreshedTokens EXCEPT ![cur] = newToken]
              /\ token' = newToken
              /\ pc' = "retry"
              /\ outstanding' = Settled \cup {Call("searchTrack", cur, newToken)}
              /\ UNCHANGED <<pass, idx, data, result, ret, final, reauthFailed>>
         ELSE /\ reauthFailed' = [reauthFailed EXCEPT ![cur] = TRUE]
              /\ outstanding' = Settled
              /\ Conclude(result)
              /\ UNCHANGED refreshedTokens
    /\ UNCHANGED <<inputs, smartResult>>
    /\ UNCHANGED <<seen, searchCalls, firstToken, smartCalls, pass1Tokens, searchTotal>>

\* refreshToken rejects
RefreshTokenThrows ==
    /\ pc = "refresh"
    /\ UNCHANGED notMatch
    /\ refreshCalls' = [refreshCalls EXCEPT ![cur] = @ + 1]
    /\ CatchServiceError
    /\ outstanding' = Settled
    /\ UNCHANGED <<inputs, refreshedTokens, smartResult>>
    /\ UNCHANGED <<seen, searchCalls, firstToken, reauthFailed, smartCalls, pass1Tokens, searchTotal>>

\* a retry whose outcome is dropped: the stale result is concluded
RetrySearch_KeepStale ==
    /\ pc = "retry"
    /\ UNCHANGED notMatch
    /\ searchCalls' = [searchCalls EXCEPT ![cur] = @ + 1]
    /\ \E r \in SearchResults(cur, token, data) : Conclude(result)
    /\ outstanding' = Settled
    /\ UNCHANGED <<inputs, refreshedTokens, smartResult>>
    /\ searchTotal' = searchTotal + 1
    /\ UNCHANGED <<seen, firstToken, refreshCalls, reauthFailed, smartCalls, pass1Tokens>>

\* result = await service.searchTrack(data, newToken)
RetrySearch ==
    /\ pc = "retry"
    /\ UNCHANGED notMatch
    /\ searchCalls' = [searchCalls EXCEPT ![cur] = @ + 1]
    /\ \E r \in SearchResults(cur, token, data) : Conclude(r)
    /\ outstanding' = Settled
    /\ UNCHANGED <<inputs, refreshedTokens, smartResult>>
    /\ searchTotal' = searchTotal + 1
    /\ UNCHANGED <<seen, firstToken, refreshCalls, reauthFailed, smartCalls, pass1Tokens>>

\* the first loop ran out of services: enrich when enabled and available,
\* else return null
FirstPassEnd ==
    /\ pc = "loop"
    /\ UNCHANGED notMatch
    /\ pass = 1
    /\ idx > Len(services)
    /\ IF ShouldEnrich
       THEN /\ pc' = "smart"
            /\ outstanding' = outstanding \cup {Call("smartMatch", 0, NoToken)}
            /\ UNCHANGED <<pass, idx, data, token, result, ret>>
       ELSE /\ Return(Null)
            /\ UNCHANGED outstanding
    /\ UNCHANGED <<inputs, refreshedTokens, smartResult, history>>

\* the entry of the second for-of loop, over enrichedData
startEnrichedPass(sr) ==
    /\ pc' = "loop"
    /\ pass' = 2
    /\ idx' = 1
    /\ data' = enrichedData(parsedData, sr[1].trackInfo)
    /\ pass1Tokens' = refreshedTokens
    /\ searchCalls' = [s \in ServiceNames |-> 0]
    /\ firstToken' = [s \in ServiceNames |-> NoToken]
    /\ final' = [s \in ServiceNames |-> NotSearched]
    /\ UNCHANGED <<token, result, ret>>

\* const smartResult = await smartMatcher.match(rawTitle, rawDescription)
SmartMatch ==
    /\ pc = "smart"
    /\ UNCHANGED notMatch
    /\ smartCalls' = smartCalls + 1
    /\ outstanding' = Settled
    /\ \E sr \in SmartResults :
         /\ smartResult' = sr
         /\ IF IsEnriched(sr)
            THEN startEnrichedPass(sr)
            ELSE /\ Return(Null)
                 /\ UNCHANGED <<pass1Tokens, searchCalls, firstToken, final>>
    /\ UNCHANGED <<inputs, refreshedTokens>>
    /\ UNCHANGED <<seen, refreshCalls, reauthFailed, searchTotal>>

\* an enrichment call outside the outer try/catch: the error leaves match
SmartMatchThrows_Propagates ==
    /\ pc = "smart"
    /\ UNCHANGED notMatch
    /\ smartCalls' = smartCalls + 1
    /\ outstanding' = Settled
    /\ pc' = "raised"
    /\ UNCHANGED <<pass, idx, data, token, result, ret>>
    /\ UNCHANGED <<inputs, refreshedTokens, smartResult>>
    /\ UNCHANGED <<seen, searchCalls, firstToken, final, refreshCalls,
                   reauthFailed, pass1Tokens, searchTotal>>

\* smartMatcher.match rejects: the outer catch logs, match returns null
SmartMatchThrows ==
    /\ pc = "smart"
    /\ UNCHANGED notMatch
    /\ smartCalls' = smartCalls + 1
    /\ outstanding' = Settled
    /\ Return(Null)
    /\ UNCHANGED <<inputs, refreshedTokens, smartResult>>
    /\ UNCHANGED <<seen, searchCalls, firstToken, final, refreshCalls,
                   reauthFailed, pass1Tokens, searchTotal>>

\* a second loop that is followed by a third pass over the services
EnrichedPassEnd_ThirdPass ==
    /\ pc = "loop"
    /\ UNCHANGED notMatch
    /\ pass = 2
    /\ idx > Len(services)
    /\ pass' = 3
    /\ idx' = 1
    /\ UNCHANGED <<pc, data, token, result, ret>>
    /\ UNCHANGED <<inputs, refreshedTokens, smartResult, history, outstanding>>

\* the second loop ran out of services: return null
EnrichedPassEnd ==
    /\ pc = "loop"
    /\ UNCHANGED notMatch
    /\ pass = 2
    /\ idx > Len(services)
    /\ Return(Null)
    /\ UNCHANGED <<inputs, refreshedTokens, smartResult, history, outstanding>>

Next ==
    \/ NextService
    \/ SearchTrack
    \/ SearchTrackThrows
    \/ RefreshToken
    \/ RefreshTokenThrows
    \/ RetrySearch
    \/ FirstPassEnd
    \/ SmartMatch
    \/ SmartMatchThrows
    \/ EnrichedPassEnd

Spec == Init /\ [][Next]_vars

\* match with every external call it awaits returning or throwing, and
\* the steps between its awaits taken
SpecFair == Spec /\ WF_vars(Next)

TypeOK ==
    /\ pc \in {"loop", "search", "refresh", "retry", "smart", "done"}
    /\ pass \in 1..2
    /\ idx \in 1..(NumServices + 1)
    /\ Len(ret) <= 1

(***************************************************************************)
(* Properties of TrackMatcher.match                                        *)
(***************************************************************************)
CallSites == {"search", "refresh", "retry"}
Accepted(c) == c >= CONFIDENCE_THRESHOLD

\* C1: first-confident-match-wins.  The loop never moves past a service
\* whose final outcome in the pass is accepted (>= 0.5); a returned match is
\* the final outcome of the service the loop stands at, so it belongs to the
\* earliest accepted service in list order, and no service after it has had
\* searchTrack called in that pass.
FirstConfidentMatchWins ==
    /\ \A k \in 1..Len(services) :
         (k < idx) => ~Accepted(final[services[k]])
    /\ (pc = "done" /\ ret # Null) =>
         /\ idx <= Len(services)
         /\ ret[1].service = services[idx]
         /\ ret[1].confidence = final[services[idx]]
         /\ Accepted(ret[1].confidence)
         /\ \A k \in 1..Len(services) :
              (k > idx) => /\ searchCalls[services[k]] = 0
                           /\ final[services[k]] = NotSearched

\* the first service is accepted at exactly 0.5 and returned although a
\* second service with a credential was still to come
FirstAtThresholdReturned ==
    /\ pc = "done"
    /\ ret # Null
    /\ idx = 1
    /\ ret[1].confidence = CONFIDENCE_THRESHOLD
    /\ getToken[services[2]] # NoToken

\* C2: when the refresher yields a credential the same service is retried,
\* exactly once, with that credential before the loop moves on, and a match
\* returned for a retried service comes from the retried call (made with the
\* refreshed credential), not from the call made with the stale one.
RetryOnceWithRefreshed ==
    [][ /\ (pc = "refresh" /\ refreshedTokens' # refreshedTokens) =>
             /\ pc' = "retry"
             /\ idx' = idx /\ pass' = pass
             /\ token' = refreshedTokens'[cur]
             /\ token' # firstToken[cur]
             /\ searchCalls'[cur] = 1
        /\ (pc = "retry") =>
             /\ searchCalls'[cur] = 2
             /\ pc' \in {"loop", "done"}
             /\ (pc' = "loop") => idx' = idx + 1
             /\ (pc' = "done" /\ ret' # Null) =>
                  /\ ret'[1].service = cur
                  /\ ret'[1].viaToken = refreshedTokens[cur]
                  /\ ret'[1].viaToken # firstToken[cur]
      ]_vars

\* a match returned from the retried call of a refreshed service
ReturnedFromRetry ==
    /\ pc = "done"
    /\ ret # Null
    /\ searchCalls[ret[1].service] = 2
    /\ ret[1].viaToken = refreshedTokens[ret[1].service]
    /\ refreshedTokens[ret[1].service] # NoToken

\* C3: within one match call the refresher is invoked at most once for any
\* service.
RefreshAtMostOncePerService ==
    \A s \in ServiceNames : refreshCalls[s] <= 1

\* C4: a service that signalled needsReauth and could not be refreshed (the
\* refresher returned null, or none was supplied) is skipped for the rest of
\* the match call: match never again stands at a searchTrack or refresher
\* call for it.
FailedReauthSkipped ==
    (pc \in CallSites) => ~reauthFailed[cur]

\* C5: a service whose credential was refreshed in the first pass gets its
\* first searchTrack call of the enrichment pass with the cached refreshed
\* credential, not with getToken's.
EnrichedPassUsesCachedToken ==
    \A s \in ServiceNames :
        (pass = 2 /\ pass1Tokens[s] # NoToken /\ searchCalls[s] >= 1) =>
            /\ firstToken[s] = pass1Tokens[s]
            /\ firstToken[s] # getToken[s]

\* a service refreshed in the first pass has been searched in the second
RefreshedServiceSearchedAgain ==
    \E s \in ServiceNames :
        /\ pass = 2
        /\ pass1Tokens[s] # NoToken
        /\ searchCalls[s] >= 1

\* C6: match returns null or a match of confidence >= 0.5, in either pass; a
\* candidate below 0.5 does not end the loop and is not returned.
ReturnsNullOrConfident ==
    /\ (pc = "done" /\ ret # Null) => Accepted(ret[1].confidence)
    /\ \A s \in ServiceNames :
         (final[s] >= 0 /\ ~Accepted(final[s])) =>
             \/ pc # "done"
             \/ ret = Null
             \/ ret[1].service # s

\* null was returned although a service had found a (low-confidence)
\* candidate
LowConfidenceOnlyReturnsNull ==
    /\ pc = "done"
    /\ ret = Null
    /\ \E s \in ServiceNames : final[s] = 45

\* C7: an enrichment result below 0.6 triggers no second pass and match
\* returns null; a result of exactly 0.6 starts the second pass.
EnrichmentThreshold ==
    /\ (smartResult # Null /\ smartResult[1].confidence < SMART_MATCH_CONFIDENCE_THRESHOLD) =>
         /\ pc = "done"
         /\ ret = Null
         /\ pass = 1
         /\ seen[2] = <<>>
    /\ (smartResult # Null /\ smartResult[1].confidence = SMART_MATCH_CONFIDENCE_THRESHOLD) =>
         pass = 2

\* the enrichment answered 0.55
EnrichmentBelowThreshold ==
    /\ smartResult # Null
    /\ smartResult[1].confidence = 55
    /\ pc = "done"

\* C8: the enrichment is invoked at most once, only with useSmartMatching
\* set and the capability available, only after the first loop went through
\* every service without an accepted match, and never when the first pass
\* returned a match.
EnrichmentOnlyAfterFirstPass ==
    /\ smartCalls <= 1
    /\ (pc = "smart" \/ smartCalls >= 1) =>
         /\ useSmartMatching
         /\ smartAvailable
         /\ seen[1] = services
    /\ (pc = "smart") =>
         /\ smartCalls = 0
         /\ \A s \in ServiceNames : ~Accepted(final[s])
    /\ (pc = "done" /\ pass = 1 /\ ret # Null) => smartCalls = 0

\* the enrichment has been invoked after a first pass that searched a service
EnrichmentInvoked ==
    /\ smartCalls = 1
    /\ \E s \in ServiceNames : getToken[s] # NoToken

\* C9: in the enrichment pass the query is the original one with only artist
\* and song replaced by the enrichment's, a match found there was searched
\* with that query, and the services are visited in the order of the first
\* pass.
EnrichedQueryAndOrder ==
    (pass = 2) =>
        /\ data.rawTitle = parsedData.rawTitle
        /\ data.rawDescription = parsedData.rawDescription
        /\ data.artist = smartResult[1].trackInfo.artist
        /\ data.song = smartResult[1].trackInfo.song
        /\ (ret # Null) => ret[1].viaData = data
        /\ Len(seen[2]) <= Len(seen[1])
        /\ seen[2] = SubSeq(seen[1], 1, Len(seen[2]))

\* a match found in the enrichment pass by the second service, for a query
\* that already had an artist and a song
EnrichedPassMatched ==
    /\ pass = 2
    /\ pc = "done"
    /\ ret # Null
    /\ parsedData.artist # ""
    /\ Len(seen[2]) = 2

\* C10: a throwing searchTrack or refresher never makes match raise: the
\* error is absorbed for that service, the services after it are still
\* visited, and the call ends with a match or null.
ErrorsAbsorbed ==
    /\ pc \in {"loop", "search", "refresh", "retry", "smart", "done"}
    /\ (pass = 2 \/ pc = "smart") => seen[1] = services
    /\ (pc = "done" /\ ret = Null /\ smartCalls = 0) => seen[1] = services
    /\ (pc = "done" /\ ret = Null /\ pass = 2) => seen[2] = services
    /\ \A k \in 1..Len(services) :
         (final[services[k]] = Errored) => (pc # "raised" /\ idx > k)

\* the first service threw, the second was still searched, and match ended
ErrorThenLaterServiceSearched ==
    /\ pc = "done"
    /\ final[services[1]] = Errored
    /\ searchCalls[services[2]] >= 1

\* C11: when the enrichment call throws, returns null or returns a result
\* below 0.6, match ends with null, raises nothing and makes no provider
\* search after the enrichment.
EnrichmentFailureReturnsNull ==
    (/\ smartCalls >= 1
     /\ \/ smartResult = Null
        \/ smartResult[1].confidence < SMART_MATCH_CONFIDENCE_THRESHOLD) =>
        /\ pc = "done"
        /\ ret = Null
        /\ pass = 1
        /\ seen[2] = <<>>
        /\ outstanding = {}

\* the enrichment was called and gave no result (it threw or returned null)
EnrichmentGaveNothing ==
    /\ smartCalls = 1
    /\ smartResult = Null
    /\ pc = "done"
    /\ \E s \in ServiceNames : searchCalls[s] >= 1

\* C12: a service for which neither the cache nor getToken yields a
\* credential is skipped in both passes: no searchTrack and no refresher call
\* is made for it, match never waits on it, and the loop goes on to the next
\* service.
TokenlessServiceSkipped ==
    \A k \in 1..Len(services) :
        (getToken[services[k]] = NoToken) =>
            /\ searchCalls[services[k]] = 0
            /\ refreshCalls[services[k]] = 0
            /\ refreshedTokens[services[k]] = NoToken
            /\ final[services[k]] = NotSearched
            /\ (idx = k) => pc = "loop"
            /\ \A c \in outstanding : c.service # services[k]

\* the first service has no credential and the second one has been searched
\* in the enrichment pass
SkippedThenNextSearched ==
    /\ getToken[services[1]] = NoToken
    /\ pass = 2
    /\ seen[2] = services
    /\ searchCalls[services[2]] >= 1

\* C13: at most one external call (searchTrack, refreshToken, enrichment) is
\* outstanding at any time: match is suspended on exactly the one call it
\* issued last, and none is in flight while the loop advances or after the
\* return.
OneCallOutstanding ==
    /\ Cardinality(outstanding) <= 1
    /\ (pc \in {"search", "refresh", "retry", "smart"}) => outstanding = {Awaited}
    /\ (pc \in {"loop", "done"}) => outstanding = {}

\* the second service's refresh is in flight after the first service was
\* searched
SecondServiceRefreshInFlight ==
    /\ pc = "refresh"
    /\ idx = 2
    /\ searchCalls[services[1]] >= 1
    /\ outstanding = {Call("refreshToken", services[2], NoToken)}

(***************************************************************************)
(* Two invocations of TrackMatcher.match on the shared trackMatcher        *)
(* instance, interleaved at their await points.  Every invocation runs the *)
(* same code as above; the refresher hands invocation i the credential     *)
(* FreshToken(i), so that a credential read from another invocation's      *)
(* cache shows.                                                            *)
(***************************************************************************)
matchVars == <<inputs, locals, history, outstanding>>

\* the state outside the two invocations
notTwo == <<matchVars, spVars, fzVars, tnVars, laterVars>>

\* the state outside a searchTrack call of SpotifyService
notSp == <<matchVars, twoVars, fzVars, tnVars, laterVars>>

\* the state outside the matcher-function specification
notFz == <<matchVars, twoVars, spVars, tnVars, laterVars>>

\* the state outside a SmartMatcher.match call
notSm == <<matchVars, twoVars, spVars, fzVars, tnVars, dbVars, atVars>>

\* the state outside the Database
notDb == <<matchVars, twoVars, spVars, fzVars, tnVars, smVars, atVars>>

\* the state outside the handler's loop over the connections
notAt == <<matchVars, twoVars, spVars, fzVars, tnVars, smVars, dbVars>>

\* the state outside the normalizer specification
notTn == <<matchVars, twoVars, spVars, fzVars, laterVars>>

\* the single-call machine at rest, its arguments shared by the invocations:
\* a refresher is supplied and the enrichment is enabled and available
MatchIdle ==
    /\ parsedData = [rawTitle |-> "T", rawDescription |-> "D", artist |-> "", song |-> ""]
    /\ services = [k \in 1..NumServices |-> k]
    /\ useSmartMatching = TRUE
    /\ refreshToken = TRUE
    /\ smartAvailable = TRUE
    /\ pc = "idle"
    /\ pass = 1
    /\ idx = 1
    /\ data = parsedData
    /\ token = NoToken
    /\ result = NoResult
    /\ refreshedTokens = [s \in ServiceNames |-> NoToken]
    /\ smartResult = Null
    /\ ret = Null
    /\ seen = [p \in 1..2 |-> <<>>]
    /\ searchCalls = [s \in ServiceNames |-> 0]
    /\ firstToken = [s \in ServiceNames |-> NoToken]
    /\ final = [s \in ServiceNames |-> NotSearched]
    /\ refreshCalls = [s \in ServiceNames |-> 0]
    /\ reauthFailed = [s \in ServiceNames |-> FALSE]
    /\ smartCalls = 0
    /\ pass1Tokens = [s \in ServiceNames |-> NoToken]
    /\ searchTotal = 0
    /\ outstanding = {}

InitTwo ==
    /\ MatchIdle
    /\ getToken \in [ServiceNames -> {NoToken, StaleToken}]
    /\ TwoIdle
    /\ LaterIdle
    /\ SpIdle
    /\ FzIdle
    /\ TnIdle

\* a cache kept in a field of the shared instance instead of a local
cacheOf_Instance(i) == 1

\* const refreshedTokens = new Map(): the Map invocation i reads and writes
\* is the one created in its own call
cacheOf(i) == i

\* getEffectiveToken of invocation i
tGetEffectiveToken(i, s) ==
    IF caches[cacheOf(i)][s] # NoToken THEN caches[cacheOf(i)][s] ELSE getToken[s]

\* the service invocation i stands at, and the query of its pass
tcur(i) == ServiceAt(tpass[i], tidx[i])
tdata(i) == IF tpass[i] = 1 THEN parsedData
                            ELSE enrichedData(parsedData, EnrichedTrackInfo)

TReturn(i) ==
    /\ tpc' = [tpc EXCEPT ![i] = "done"]
    /\ ttoken' = [ttoken EXCEPT ![i] = NoToken]
    /\ tresult' = [tresult EXCEPT ![i] = NoResult]
    /\ UNCHANGED <<tpass, tidx>>

TContinue(i) ==
    /\ tpc' = [tpc EXCEPT ![i] = "loop"]
    /\ tidx' = [tidx EXCEPT ![i] = @ + 1]
    /\ ttoken' = [ttoken EXCEPT ![i] = NoToken]
    /\ tresult' = [tresult EXCEPT ![i] = NoResult]
    /\ UNCHANGED tpass

TConclude(i, r) == IF IsConfident(r) THEN TReturn(i) ELSE TContinue(i)

\* entry of match: const refreshedTokens = new Map()
TStart(i) ==
    /\ tpc[i] = "idle"
    /\ caches' = [caches EXCEPT ![cacheOf(i)] = [s \in 1..NumServices |-> NoToken]]
    /\ tpc' = [tpc EXCEPT ![i] = "loop"]
    /\ UNCHANGED <<tpass, tidx, ttoken, tresult, notTwo>>

\* loop head of either pass: getEffectiveToken, skip when no token
TNextService(i) ==
    /\ tpc[i] = "loop"
    /\ tidx[i] <= Len(services)
    /\ LET tok == tGetEffectiveToken(i, tcur(i)) IN
         IF tok = NoToken
         THEN /\ tidx' = [tidx EXCEPT ![i] = @ + 1]
              /\ UNCHANGED <<tpc, ttoken>>
         ELSE /\ ttoken' = [ttoken EXCEPT ![i] = tok]
              /\ tpc' = [tpc EXCEPT ![i] = "search"]
              /\ UNCHANGED tidx
    /\ UNCHANGED <<caches, tpass, tresult, notTwo>>

\* await service.searchTrack(data, token) and the needsReauth test
TSearchTrack(i) ==
    /\ tpc[i] = "search"
    /\ \E r \in SearchResults(tcur(i), ttoken[i], tdata(i)) :
         IF r.needsReauth /\ refreshToken
         THEN /\ tresult' = [tresult EXCEPT ![i] = r]
              /\ tpc' = [tpc EXCEPT ![i] = "refresh"]
              /\ UNCHANGED <<tpass, tidx, ttoken>>
         ELSE TConclude(i, r)
    /\ UNCHANGED <<caches, notTwo>>

\* searchTrack or refreshToken rejects: the catch of the iteration
TServiceThrows(i) ==
    /\ tpc[i] \in {"search", "refresh", "retry"}
    /\ TContinue(i)
    /\ UNCHANGED <<caches, notTwo>>

\* await refreshToken(service.name); refreshedTokens.set on success
TRefreshToken(i) ==
    /\ tpc[i] = "refresh"
    /\ \E newToken \in {NoToken, FreshToken(i)} :
         IF newToken # NoToken
         THEN /\ caches' = [caches EXCEPT ![cacheOf(i)][tcur(i)] = newToken]
              /\ ttoken' = [ttoken EXCEPT ![i] = newToken]
              /\ tpc' = [tpc EXCEPT ![i] = "retry"]
              /\ UNCHANGED <<tpass, tidx, tresult>>
         ELSE /\ TConclude(i, tresult[i])
              /\ UNCHANGED caches
    /\ UNCHANGED notTwo

\* result = await service.searchTrack(data, newToken)
TRetrySearch(i) ==
    /\ tpc[i] = "retry"
    /\ \E r \in SearchResults(tcur(i), ttoken[i], tdata(i)) : TConclude(i, r)
    /\ UNCHANGED <<caches, notTwo>>

\* end of the first loop
TFirstPassEnd(i) ==
    /\ tpc[i] = "loop"
    /\ tpass[i] = 1
    /\ tidx[i] > Len(services)
    /\ IF ShouldEnrich
       THEN /\ tpc' = [tpc EXCEPT ![i] = "smart"]
            /\ UNCHANGED <<tpass, tidx, ttoken, tresult>>
       ELSE TReturn(i)
    /\ UNCHANGED <<caches, notTwo>>

\* await smartMatcher.match: the second loop starts on an enriched result,
\* anything else (a throw included) returns null
TSmartMatch(i) ==
    /\ tpc[i] = "smart"
    /\ \/ \E sr \in SmartResults :
            IF IsEnriched(sr)
            THEN /\ tpc' = [tpc EXCEPT ![i] = "loop"]
                 /\ tpass' = [tpass EXCEPT ![i] = 2]
                 /\ tidx' = [tidx EXCEPT ![i] = 1]
                 /\ UNCHANGED <<ttoken, tresult>>
            ELSE TReturn(i)
       \/ TReturn(i)
    /\ UNCHANGED <<caches, notTwo>>

\* end of the second loop
TEnrichedPassEnd(i) ==
    /\ tpc[i] = "loop"
    /\ tpass[i] = 2
    /\ tidx[i] > Len(services)
    /\ TReturn(i)
    /\ UNCHANGED <<caches, notTwo>>

NextTwo ==
    \E i \in Invocations :
        \/ TStart(i)
        \/ TNextService(i)
        \/ TSearchTrack(i)
        \/ TServiceThrows(i)
        \/ TRefreshToken(i)
        \/ TRetrySearch(i)
        \/ TFirstPassEnd(i)
        \/ TSmartMatch(i)
        \/ TEnrichedPassEnd(i)

SpecTwo == InitTwo /\ [][NextTwo]_vars

\* C14: the refreshed-credential cache is private to an invocation: under
\* every interleaving of two invocations each one only ever uses getToken's
\* credential or a credential it refreshed itself, its Map only holds its own
\* credentials, and an invocation's Map is empty when it enters its first
\* loop, whatever the other invocation has cached.
CachePrivateToInvocation ==
    \A i \in Invocations :
        /\ ttoken[i] \in {NoToken, StaleToken, FreshToken(i)}
        /\ \A s \in ServiceNames : caches[i][s] \in {NoToken, FreshToken(i)}
        /\ (tpc[i] = "loop" /\ tpass[i] = 1 /\ tidx[i] = 1) =>
               \A s \in ServiceNames : caches[i][s] = NoToken

\* an invocation searches a service with getToken's credential in its
\* enrichment pass while the other, finished, invocation holds a refreshed
\* credential for that service in its cache
OtherCacheHoldsRefreshed ==
    \E i, j \in Invocations :
        /\ i # j
        /\ tpc[i] = "done"
        /\ tpc[j] = "search"
        /\ tpass[j] = 2
        /\ ttoken[j] = StaleToken
        /\ caches[i][tcur(j)] = FreshToken(i)

(***************************************************************************)
(* SpotifyService (MusicService.ts): strings are sequences of one-character *)
(* strings; similarities and confidences are hundredths.                    *)
(***************************************************************************)
\* bound: the longest result list a catalog request returns
MaxItems == 2

\* program constants of SpotifyService
STRUCTURED_CONFIDENCE == 90
TITLE_MATCH_THRESHOLD == 50
CONTAINMENT_FLOOR == 70
DESCRIPTION_BOOST == 10
DESCRIPTION_PREFIX == 2000
MIN_ARTIST_LENGTH == 3

\* the letters, in the order that pairs upper with lower case
UpperCase ==
    <<"A", "B", "C", "D", "E", "F", "G", "H", "I", "J", "K", "L", "M",
      "N", "O", "P", "Q", "R", "S", "T", "U", "V", "W", "X", "Y", "Z">>
LowerCase ==
    <<"a", "b", "c", "d", "e", "f", "g", "h", "i", "j", "k", "l", "m",
      "n", "o", "p", "q", "r", "s", "t", "u", "v", "w", "x", "y", "z">>

\* the characters \s matches, of those the inputs use
WhiteSpace == {" ", "\t", "\n"}

\* the lower-case letter of each upper-case letter
LowerOf ==
    [c \in { UpperCase[i] : i \in 1..Len(UpperCase) } |->
        LowerCase[CHOOSE i \in 1..Len(UpperCase) : UpperCase[i] = c]]

\* String.prototype.toLowerCase, one character
ToLower(c) == IF c \in DOMAIN LowerOf THEN LowerOf[c] ELSE c

\* the characters /[^a-z0-9\s]/g leaves in place
KeptChars ==
    {"a", "b", "c", "d", "e", "f", "g", "h", "i", "j", "k", "l", "m", "n",
     "o", "p", "q", "r", "s", "t", "u", "v", "w", "x", "y", "z",
     "0", "1", "2", "3", "4", "5", "6", "7", "8", "9"} \cup WhiteSpace

\* String.prototype.trim
RECURSIVE Trim(_)
Trim(s) ==
    IF s = <<>> THEN s
    ELSE IF Head(s) \in WhiteSpace THEN Trim(Tail(s))
    ELSE IF s[Len(s)] \in WhiteSpace THEN Trim(SubSeq(s, 1, Len(s) - 1))
    ELSE s

\* s.toLowerCase().replace(/[^a-z0-9\s]/g, '').trim()
normalizeForComparison(s) ==
    Trim(SelectSeq([k \in 1..Len(s) |-> ToLower(s[k])], LAMBDA c : c \in KeptChars))

\* String.prototype.includes
includes(h, n) ==
    \E k \in 0..(Len(h) - Len(n)) : SubSeq(h, k + 1, k + Len(n)) = n

\* String.prototype.slice(0, n)
sliceTo(s, n) == SubSeq(s, 1, IF Len(s) < n THEN Len(s) ELSE n)

\* new Set(s.split(/\s+/).filter(w => w.length > 0))
getWords(s) ==
    { SubSeq(s, a, b) : <<a, b>> \in
        { ab \in (1..Len(s)) \X (1..Len(s)) :
            /\ ab[1] <= ab[2]
            /\ \A k \in ab[1]..ab[2] : s[k] \notin WhiteSpace
            /\ (ab[1] = 1 \/ s[ab[1] - 1] \in WhiteSpace)
            /\ (ab[2] = Len(s) \/ s[ab[2] + 1] \in WhiteSpace) } }

\* Array.prototype.join(' ')
RECURSIVE joinSpace(_)
joinSpace(ss) ==
    IF ss = <<>> THEN <<>>
    ELSE IF Len(ss) = 1 THEN ss[1]
    ELSE ss[1] \o <<" ">> \o joinSpace(Tail(ss))

\* an overlap normalized by the words of both sides
calculateWordOverlap_Jaccard(set1, set2) ==
    IF set1 = {} \/ set2 = {} THEN 0
    ELSE (Cardinality(set1 \cap set2) * 100) \div Cardinality(set1 \cup set2)

\* an overlap that takes an empty side for a full match
calculateWordOverlap_EmptyIsFull(set1, set2) ==
    IF set1 = {} \/ set2 = {} THEN 100
    ELSE (Cardinality(set1 \cap set2) * 100) \div Cardinality(set1)

\* calculateWordOverlap: matches / set1.size, 0 when either set is empty
calculateWordOverlap(set1, set2) ==
    IF set1 = {} \/ set2 = {} THEN 0
    ELSE (Cardinality(set1 \cap set2) * 100) \div Cardinality(set1)

Max(a, b) == IF a >= b THEN a ELSE b

\* the normalized description findBestTitleMatch compares against
normalizedDescriptionOf(description) ==
    IF description # <<>>
    THEN normalizeForComparison(sliceTo(description, DESCRIPTION_PREFIX))
    ELSE <<>>

\* normalized artist names of a track, as findBestTitleMatch joins them
titleArtistName(track) == normalizeForComparison(joinSpace(track.artists))

\* a test that takes an artist name of any length
artistInDescription_AnyLength(track, description) ==
    LET nd == normalizedDescriptionOf(description)
    IN  nd # <<>> /\ includes(nd, titleArtistName(track))

\* artistInDescription of findBestTitleMatch
artistInDescription(track, description) ==
    LET nd == normalizedDescriptionOf(description)
        artistName == titleArtistName(track)
    IN  IF nd # <<>> /\ Len(artistName) > MIN_ARTIST_LENGTH
        THEN includes(nd, artistName)
        ELSE FALSE

\* an adjusted similarity without the containment floor
adjustedSimilarity_NoFloor(track, title, description) ==
    LET titleWords == getWords(normalizeForComparison(title))
        trackName == normalizeForComparison(track.name)
        combinedWords == getWords(trackName \o <<" ">> \o titleArtistName(track))
        similarity == calculateWordOverlap(titleWords, combinedWords)
    IN  IF artistInDescription(track, description)
        THEN similarity + DESCRIPTION_BOOST
        ELSE similarity

\* the adjusted similarity findBestTitleMatch gives one track: word overlap
\* of the title with the track's name and artists, raised to 0.7 on
\* containment, plus 0.1 when the artist occurs in the description
adjustedSimilarity(track, title, description) ==
    LET normalizedTitle == normalizeForComparison(title)
        titleWords == getWords(normalizedTitle)
        trackName == normalizeForComparison(track.name)
        artistName == titleArtistName(track)
        combinedWords == getWords(trackName \o <<" ">> \o artistName)
        similarity == calculateWordOverlap(titleWords, combinedWords)
        titleContainsTrack == includes(normalizedTitle, trackName)
        trackContainsTitle == includes(trackName, normalizedTitle)
        contained == IF titleContainsTrack \/ trackContainsTitle
                     THEN Max(similarity, CONTAINMENT_FLOOR)
                     ELSE similarity
    IN  IF artistInDescription(track, description)
        THEN contained + DESCRIPTION_BOOST
        ELSE contained

\* a comparison that lets a later track of equal score replace bestMatch
replacesBest_OnTie(adj, best) ==
    adj >= (IF best = Null THEN 0 ELSE best[1].similarity)

\* adjustedSimilarity > (bestMatch?.similarity ?? 0)
replacesBest(adj, best) ==
    adj > (IF best = Null THEN 0 ELSE best[1].similarity)

\* the loop of findBestTitleMatch over tracks[k..], bestMatch so far in best
RECURSIVE bestTitleMatchFrom(_, _, _, _, _)
bestTitleMatchFrom(tracks, k, title, description, best) ==
    IF k > Len(tracks) THEN best
    ELSE LET adj == adjustedSimilarity(tracks[k], title, description)
             next == IF replacesBest(adj, best)
                     THEN Some([track |-> tracks[k], similarity |-> adj,
                                descriptionBoost |-> artistInDescription(tracks[k], description)])
                     ELSE best
         IN  bestTitleMatchFrom(tracks, k + 1, title, description, next)

\* findBestTitleMatch: the best track when it reaches 0.5, else null
findBestTitleMatch(tracks, title, description) ==
    LET best == bestTitleMatchFrom(tracks, 1, title, description, Null)
    IN  IF best # Null /\ best[1].similarity >= TITLE_MATCH_THRESHOLD
        THEN best ELSE Null

\* findBestMatch: the first track whose name and artists contain, or are
\* contained in, the wanted song and artist; null when there is none
findBestMatch(tracks, trackInfo) ==
    LET targetArtist == normalizeForComparison(trackInfo.artist)
        targetSong == normalizeForComparison(trackInfo.song)
        matches(track) ==
            LET trackName == normalizeForComparison(track.name)
                artistNames == joinSpace([k \in 1..Len(track.artists) |->
                                   normalizeForComparison(track.artists[k])])
            IN  /\ includes(trackName, targetSong) \/ includes(targetSong, trackName)
                /\ includes(artistNames, targetArtist) \/ includes(targetArtist, artistNames)
        hits == { k \in 1..Len(tracks) : matches(tracks[k]) }
    IN  IF hits = {} THEN Null
        ELSE Some(tracks[CHOOSE k \in hits : \A j \in hits : k <= j])

(***************************************************************************)
(* SpotifyService.searchTrack, one action per catalog response              *)
(***************************************************************************)
\* texts the inputs are made of
cAbba == <<"A", "b", "b", "a">>
cHey == <<"H", "e", "y">>
cYo == <<"Y", "o">>
cArtistColon == <<"a", "r", "t", "i", "s", "t", ":">>
cTrackColon == <<"t", "r", "a", "c", "k", ":">>
UnknownArtist ==
    <<"U", "n", "k", "n", "o", "w", "n", " ", "A", "r", "t", "i", "s", "t">>

\* ParsedTrackData handed to searchTrack: with artist and song and a
\* description naming the artist; without artist and song, with no
\* description, with a description naming the artist, and with a one-word
\* title
SpQueries ==
    { [artist |-> cAbba, song |-> cHey,
       rawTitle |-> cAbba \o <<" ", "-", " ">> \o cHey,
       rawDescription |-> <<"b", "y", " ">> \o cAbba \o <<"!">>],
      [artist |-> <<>>, song |-> <<>>,
       rawTitle |-> cHey \o <<" ">> \o cAbba, rawDescription |-> <<>>],
      [artist |-> <<>>, song |-> <<>>,
       rawTitle |-> cHey \o <<" ">> \o cAbba,
       rawDescription |-> <<"b", "y", " ">> \o cAbba \o <<"!">>],
      [artist |-> <<>>, song |-> <<>>,
       rawTitle |-> cHey, rawDescription |-> <<>>] }

\* catalog tracks a response may list
SpTracks ==
    { [name |-> cHey, artists |-> <<cAbba>>, uri |-> "u1"],
      [name |-> cYo, artists |-> <<cAbba>>, uri |-> "u2"],
      [name |-> cHey, artists |-> <<cYo>>, uri |-> "u3"],
      [name |-> cYo, artists |-> <<>>, uri |-> "u4"],
      [name |-> <<>>, artists |-> <<cAbba>>, uri |-> "u5"] }

\* data.tracks.items of a response
ItemLists == UNION { [1..n -> SpTracks] : n \in 0..MaxItems }

\* the strategies of search with the order of specificity swapped
strategies_SongFirst(trackInfo) ==
    << [kind |-> "field",
        rawQuery |-> cArtistColon \o trackInfo.artist \o <<" ">> \o
                     cTrackColon \o trackInfo.song],
       [kind |-> "song", rawQuery |-> trackInfo.song],
       [kind |-> "combined",
        rawQuery |-> trackInfo.artist \o <<" ">> \o trackInfo.song] >>

\* const strategies = [...]: field filters, combined, song only
strategies(trackInfo) ==
    << [kind |-> "field",
        rawQuery |-> cArtistColon \o trackInfo.artist \o <<" ">> \o
                     cTrackColon \o trackInfo.song],
       [kind |-> "combined",
        rawQuery |-> trackInfo.artist \o <<" ">> \o trackInfo.song],
       [kind |-> "song", rawQuery |-> trackInfo.song] >>

\* a search that validates the field-filtered results like the others
isFieldFilterStrategy_Never(rawQuery) == FALSE

\* rawQuery.includes('artist:') && rawQuery.includes('track:')
isFieldFilterStrategy(rawQuery) ==
    includes(rawQuery, cArtistColon) /\ includes(rawQuery, cTrackColon)

\* titleResult.confidence ?? 0.6, confidence being match.similarity
titleConfidence(m) == m.similarity

\* trackInfo: { artist: data.artist, song: data.song }
sTrackInfo == [artist |-> sData.artist, song |-> sData.song]

\* the request searchTrack is waiting on
sLast == sRequests[Len(sRequests)]

\* a structured match that carries the 0.6 default of the title search
structuredMatch_TitleDefault(uri) ==
    [match |-> Some([trackInfo |-> sTrackInfo,
                     confidence |-> 60,
                     uri |-> uri, service |-> "spotify"]),
     needsReauth |-> FALSE]

\* the match searchTrack builds from a uri found by search
structuredMatch(uri) ==
    [match |-> Some([trackInfo |-> sTrackInfo,
                     confidence |-> STRUCTURED_CONFIDENCE,
                     uri |-> uri, service |-> "spotify"]),
     needsReauth |-> FALSE]

\* a title match that carries the flag of an expired credential
titleMatch_NeedsReauth(m) ==
    [match |-> Some([trackInfo |-> [artist |-> UnknownArtist, song |-> m.track.name],
                     confidence |-> titleConfidence(m),
                     uri |-> m.track.uri, service |-> "spotify"]),
     needsReauth |-> TRUE]

\* the match searchTrack builds from the result of searchByTitle
titleMatch(m) ==
    [match |-> Some([trackInfo |->
                       [artist |-> IF m.track.artists # <<>> /\ m.track.artists[1] # <<>>
                                   THEN m.track.artists[1] ELSE UnknownArtist,
                        song |-> m.track.name],
                     confidence |-> titleConfidence(m),
                     uri |-> m.track.uri, service |-> "spotify"]),
     needsReauth |-> FALSE]

\* searchTrack returns r
SpReturn(r, via, cand, items) ==
    /\ sPc' = "done"
    /\ sResult' = r
    /\ sVia' = via
    /\ sCand' = cand
    /\ sItems' = items
    /\ UNCHANGED <<sStrategy, sRequests>>

\* the fallback of searchTrack: searchByTitle issues the raw-title request
StartTitle ==
    /\ sPc' = "title"
    /\ sRequests' = Append(sRequests, [kind |-> "title", rawQuery |-> sData.rawTitle])
    /\ UNCHANGED <<sStrategy, sResult, sVia, sCand, sItems>>

\* the strategy loop of search goes on: the next strategy's request, or,
\* the strategies exhausted, { uri: null } and the title fallback
NextStrategy ==
    IF sStrategy < Len(strategies(sTrackInfo))
    THEN /\ sStrategy' = sStrategy + 1
         /\ sPc' = "search"
         /\ sRequests' = Append(sRequests, strategies(sTrackInfo)[sStrategy + 1])
         /\ UNCHANGED <<sResult, sVia, sCand, sItems>>
    ELSE StartTitle

\* entry of searchTrack: structured search when artist and song are both
\* there, else straight to the title search
SpSearchTrack ==
    /\ sPc = "start"
    /\ IF sData.artist # <<>> /\ sData.song # <<>>
       THEN /\ sPc' = "search"
            /\ sStrategy' = 1
            /\ sRequests' = <<strategies(sTrackInfo)[1]>>
            /\ UNCHANGED <<sResult, sVia, sCand, sItems>>
       ELSE StartTitle
    /\ UNCHANGED <<sData, sResponses, notSp>>

\* a 401 handled like any other error response
SpSearch401_Continues ==
    /\ sPc = "search"
    /\ sResponses' = Append(sResponses, "401")
    /\ NextStrategy
    /\ UNCHANGED <<sData, notSp>>

\* search: data.error.status === 401
SpSearch401 ==
    /\ sPc = "search"
    /\ sResponses' = Append(sResponses, "401")
    /\ SpReturn([match |-> Null, needsReauth |-> TRUE], "none", Null, <<>>)
    /\ UNCHANGED <<sData, notSp>>

\* a strategy loop without the try/catch: the failure leaves searchTrack
SpSearchFails_Throws ==
    /\ sPc = "search"
    /\ \E k \in {"error", "throw"} : sResponses' = Append(sResponses, k)
    /\ sPc' = "raised"
    /\ UNCHANGED <<sStrategy, sRequests, sResult, sVia, sCand, sItems>>
    /\ UNCHANGED <<sData, notSp>>

\* search: another error response (continue) or a rejected fetch (catch)
SpSearchFails ==
    /\ sPc = "search"
    /\ \E k \in {"error", "throw"} : sResponses' = Append(sResponses, k)
    /\ NextStrategy
    /\ UNCHANGED <<sData, notSp>>

\* search: a response with items; the top item under the field filters, the
\* findBestMatch one otherwise
SpSearchItems ==
    /\ sPc = "search"
    /\ \E items \in ItemLists :
         LET track == IF Len(items) > 0
                      THEN IF isFieldFilterStrategy(sLast.rawQuery)
                           THEN Some(items[1])
                           ELSE findBestMatch(items, sTrackInfo)
                      ELSE Null
         IN  IF track # Null
             THEN /\ sResponses' = Append(sResponses, "accepted")
                  /\ SpReturn(structuredMatch(track[1].uri), sLast.kind, track, items)
             ELSE /\ sResponses' = Append(sResponses,
                                      IF Len(items) > 0 THEN "rejected" ELSE "empty")
                  /\ NextStrategy
    /\ UNCHANGED <<sData, notSp>>

\* searchByTitle: data.error.status === 401
SpTitle401 ==
    /\ sPc = "title"
    /\ sResponses' = Append(sResponses, "401")
    /\ SpReturn([match |-> Null, needsReauth |-> TRUE], "none", Null, <<>>)
    /\ UNCHANGED <<sData, notSp>>

\* searchByTitle: another error response or a rejected fetch
SpTitleFails ==
    /\ sPc = "title"
    /\ \E k \in {"error", "throw"} : sResponses' = Append(sResponses, k)
    /\ SpReturn(NoResult, "none", Null, <<>>)
    /\ UNCHANGED <<sData, notSp>>

\* searchByTitle: a response with items, validated by findBestTitleMatch
SpTitleItems ==
    /\ sPc = "title"
    /\ \E items \in ItemLists :
         LET m == IF Len(items) > 0
                  THEN findBestTitleMatch(items, sData.rawTitle, sData.rawDescription)
                  ELSE Null
         IN  IF m # Null
             THEN /\ sResponses' = Append(sResponses, "accepted")
                  /\ SpReturn(titleMatch(m[1]), "title", Some(m[1].track), items)
             ELSE /\ sResponses' = Append(sResponses,
                                      IF Len(items) > 0 THEN "rejected" ELSE "empty")
                  /\ SpReturn(NoResult, "none", Null, <<>>)
    /\ UNCHANGED <<sData, notSp>>

InitSp ==
    /\ MatchIdle
    /\ getToken = [s \in ServiceNames |-> StaleToken]
    /\ TwoIdle
    /\ LaterIdle
    /\ sData \in SpQueries
    /\ sPc = "start"
    /\ sStrategy = 0
    /\ sRequests = <<>>
    /\ sResponses = <<>>
    /\ sResult = NoResult
    /\ sVia = "none"
    /\ sCand = Null
    /\ sItems = <<>>
    /\ FzIdle
    /\ TnIdle

NextSp ==
    \/ SpSearchTrack
    \/ SpSearch401
    \/ SpSearchFails
    \/ SpSearchItems
    \/ SpTitle401
    \/ SpTitleFails
    \/ SpTitleItems

SpecSpotify == InitSp /\ [][NextSp]_vars

(***************************************************************************)
(* Properties of SpotifyService.searchTrack                                 *)
(***************************************************************************)
\* the call was made with both artist and song
sStructured == sData.artist # <<>> /\ sData.song # <<>>

\* the kinds of the requests issued so far, in order
sKinds == [i \in 1..Len(sRequests) |-> sRequests[i].kind]

\* the order of precision
PrecisionOrder == <<"field", "combined", "song", "title">>

\* s is a prefix of t
IsPrefix(s, t) == Len(s) <= Len(t) /\ \A i \in 1..Len(s) : s[i] = t[i]

\* C15: every match searchTrack returns has a confidence within [0, 1],
\* the title match of full word overlap with the description boost included.
ConfidenceWithinUnit ==
    sPc = "done" /\ sResult.match # Null
        => sResult.match[1].confidence \in 0..100

\* C16: artist and song given and the field-filtered request answered with
\* at least one item: the call ends there, after that single request, with
\* the top item's uri, confidence 0.9 and the query's artist and song.
FieldTopResultAccepted ==
    sStructured /\ Len(sResponses) >= 1 /\ sResponses[1] \in {"accepted", "rejected"}
        => /\ sResponses[1] = "accepted"
           /\ sPc = "done"
           /\ Len(sRequests) = 1
           /\ sRequests[1].kind = "field"
           /\ sResult = [match |-> Some([trackInfo |-> [artist |-> sData.artist,
                                                       song |-> sData.song],
                                         confidence |-> 90,
                                         uri |-> sItems[1].uri,
                                         service |-> "spotify"]),
                         needsReauth |-> FALSE]

\* the top item of the field-filtered response was returned although
\* findBestMatch accepts no item of that response
FieldTopResultUnvalidated ==
    /\ sPc = "done"
    /\ sVia = "field"
    /\ findBestMatch(sItems, sTrackInfo) = Null
    /\ sResult.match # Null

\* C17 as stated: a match found by the combined or the song-only query is
\* returned with the candidate's adjusted similarity as confidence.
FallbackCarriesSimilarity ==
    sPc = "done" /\ sVia \in {"combined", "song"}
        => sResult.match[1].confidence =
             adjustedSimilarity(sCand[1], sData.rawTitle, sData.rawDescription)

\* C17 amended: a match found by any strategy of search (field filters,
\* combined, song only) carries the fixed 0.9; only a match of the raw-title
\* search carries the adjusted similarity of findBestTitleMatch.
FallbackCarriesFixedConfidence ==
    sPc = "done" /\ sResult.match # Null
        => /\ sVia \in {"field", "combined", "song"}
                => sResult.match[1].confidence = STRUCTURED_CONFIDENCE
           /\ sVia = "title"
                => sResult.match[1].confidence =
                     adjustedSimilarity(sCand[1], sData.rawTitle, sData.rawDescription)

\* a match found by the combined or the song-only query whose adjusted
\* similarity is not 0.9
FallbackMatched ==
    /\ sPc = "done"
    /\ sVia \in {"combined", "song"}
    /\ sResult.match # Null
    /\ adjustedSimilarity(sCand[1], sData.rawTitle, sData.rawDescription)
         # STRUCTURED_CONFIDENCE

\* C18: a 401 answer to any request of the call is the last answer of the
\* call, no request follows it, and the call returns
\* { match: null, needsReauth: true }.
AuthFailureEndsCall ==
    \A i \in 1..Len(sResponses) :
        sResponses[i] = "401"
            => /\ i = Len(sResponses)
               /\ Len(sRequests) = i
               /\ sPc = "done"
               /\ sResult = [match |-> Null, needsReauth |-> TRUE]

\* the song-only request, the third of the call, was answered 401
AuthFailureAtThirdStrategy ==
    /\ sPc = "done"
    /\ Len(sResponses) = 3
    /\ sResponses[3] = "401"
    /\ sRequests[3].kind = "song"

\* C19: an error response other than 401, or a rejected fetch, moves the
\* call to the next strategy, the raw-title search being the last; the call
\* is never left by an exception, and when no strategy gave a match it
\* returns { match: null } without needsReauth.
FailureMovesToNextStrategy ==
    /\ sPc \in {"start", "search", "title", "done"}
    /\ \A i \in 1..Len(sResponses) :
         sResponses[i] \in {"error", "throw"}
            => IF sRequests[i].kind = "title"
               THEN sPc = "done" /\ sResult = [match |-> Null, needsReauth |-> FALSE]
               ELSE /\ Len(sRequests) > i
                    /\ \E k \in 1..3 : /\ sRequests[i].kind = PrecisionOrder[k]
                                       /\ sRequests[i + 1].kind = PrecisionOrder[k + 1]
    /\ sPc = "done" /\ (\A i \in 1..Len(sResponses) :
                           sResponses[i] \in {"error", "throw", "empty", "rejected"})
         => sResult = [match |-> Null, needsReauth |-> FALSE]

\* all four requests failed, by error responses and by rejected fetches
EveryStrategyFailed ==
    /\ sPc = "done"
    /\ sResponses = <<"error", "throw", "error", "throw">>
    /\ sResult = [match |-> Null, needsReauth |-> FALSE]

\* C20: the requests of one call follow the order of precision (field
\* filters, combined, song only, raw title; the raw title alone without
\* artist and song), a request is issued only after every earlier one was
\* answered without an accepted candidate, and an accepted candidate is the
\* end of the call.
RequestsInPrecisionOrder ==
    /\ IF sStructured THEN IsPrefix(sKinds, PrecisionOrder)
                      ELSE IsPrefix(sKinds, <<"title">>)
    /\ Len(sResponses) \in {Len(sRequests), Len(sRequests) - 1}
    /\ \A i \in 1..Len(sRequests) :
         \A j \in 1..(i - 1) :
            sResponses[j] \in {"error", "throw", "empty", "rejected"}
    /\ \A i \in 1..Len(sResponses) :
         sResponses[i] = "accepted"
            => i = Len(sResponses) /\ Len(sRequests) = i /\ sPc = "done"

\* the song-only request gave the accepted candidate after the field and
\* the combined request gave none
AcceptedAtSongOnly ==
    /\ sPc = "done"
    /\ sKinds = <<"field", "combined", "song">>
    /\ sResponses[3] = "accepted"
    /\ sResponses[1] # "accepted" /\ sResponses[2] # "accepted"

(***************************************************************************)
(* findBestTitleMatch and calculateWordOverlap as functions of their        *)
(* arguments                                                                *)
(***************************************************************************)
\* a description longer than the prefix findBestTitleMatch reads, naming the
\* artist only after that prefix
LongDescription ==
    [k \in 1..DESCRIPTION_PREFIX |-> "x"] \o <<" ">> \o cAbba

\* titles findBestTitleMatch is applied to
FzTitles ==
    { cHey,
      cHey \o <<" ">> \o cAbba,
      cHey \o <<" ">> \o cAbba \o <<" ">> \o cYo,
      <<"x">> }

\* descriptions findBestTitleMatch is applied to: none, one naming the long
\* artist, one naming a track and the short artist, and the long one
FzDescriptions ==
    { <<>>,
      <<"b", "y", " ">> \o cAbba \o <<"!">>,
      cHey \o <<" ">> \o cYo,
      LongDescription }

\* the word sets calculateWordOverlap is applied to
WordSets == SUBSET {<<"h", "e", "y">>, <<"a", "b", "b", "a">>, <<"y", "o">>}

\* log("Spotify match candidate", ...) of findBestTitleMatch, per track
candidateLog(tracks, title, description) ==
    [k \in 1..Len(tracks) |->
        [similarity |-> adjustedSimilarity(tracks[k], title, description),
         descriptionBoost |-> artistInDescription(tracks[k], description)]]

\* findBestTitleMatch(tracks, title, description) is applied
FzFindBestTitleMatch ==
    /\ fPc = "findBestTitleMatch"
    /\ fPc' = "findBestTitleMatch returned"
    /\ fLog' = candidateLog(fTracks, fTitle, fDescription)
    /\ fMatch' = findBestTitleMatch(fTracks, fTitle, fDescription)
    /\ UNCHANGED <<fTracks, fTitle, fDescription, fSet1, fSet2, fExtra, fOverlap>>
    /\ UNCHANGED notFz

\* calculateWordOverlap is applied to (set1, set2), to set1 and set2 with
\* more words, and to (set1, set1)
FzCalculateWordOverlap ==
    /\ fPc = "calculateWordOverlap"
    /\ fPc' = "calculateWordOverlap returned"
    /\ fOverlap' = << calculateWordOverlap(fSet1, fSet2),
                      calculateWordOverlap(fSet1, fSet2 \cup fExtra),
                      calculateWordOverlap(fSet1, fSet1) >>
    /\ UNCHANGED <<fTracks, fTitle, fDescription, fLog, fMatch, fSet1, fSet2, fExtra>>
    /\ UNCHANGED notFz

InitFz ==
    /\ MatchIdle
    /\ getToken = [s \in ServiceNames |-> StaleToken]
    /\ TwoIdle
    /\ LaterIdle
    /\ SpIdle
    /\ TnIdle
    /\ fLog = <<>>
    /\ fMatch = <<>>
    /\ fOverlap = <<>>
    /\ \/ /\ fPc = "findBestTitleMatch"
          /\ fTracks \in ItemLists
          /\ fTitle \in FzTitles
          /\ fDescription \in FzDescriptions
          /\ fSet1 = {} /\ fSet2 = {} /\ fExtra = {}
       \/ /\ fPc = "calculateWordOverlap"
          /\ fSet1 \in WordSets
          /\ fSet2 \in WordSets
          /\ fExtra \in WordSets
          /\ fTracks = <<>> /\ fTitle = <<>> /\ fDescription = <<>>

NextFz ==
    \/ FzFindBestTitleMatch
    \/ FzCalculateWordOverlap

SpecFuzzy == InitFz /\ [][NextFz]_vars

(***************************************************************************)
(* Properties of findBestTitleMatch and calculateWordOverlap                *)
(***************************************************************************)
\* the highest adjusted similarity among the logged candidates
TopScore ==
    CHOOSE m \in {0} \cup { fLog[k].similarity : k \in 1..Len(fLog) } :
        \A k \in 1..Len(fLog) : fLog[k].similarity <= m

\* the first candidate that has the highest adjusted similarity
FirstTop ==
    CHOOSE k \in 1..Len(fLog) :
        /\ fLog[k].similarity = TopScore
        /\ \A j \in 1..(k - 1) : fLog[j].similarity < TopScore

\* C21: findBestTitleMatch returns null when no candidate has an adjusted
\* similarity of 0.5 or more, and otherwise the candidate of the highest
\* adjusted similarity, the first of the list among those that tie.
BestTitleMatchIsFirstHighest ==
    fPc = "findBestTitleMatch returned"
        => IF TopScore >= 50
           THEN /\ fMatch # Null
                /\ fMatch[1].track = fTracks[FirstTop]
                /\ fMatch[1].similarity = TopScore
           ELSE fMatch = Null

\* two different tracks tie for the highest score and the first is returned
TieKeepsFirst ==
    /\ fPc = "findBestTitleMatch returned"
    /\ Len(fTracks) >= 2
    /\ fTracks[1] # fTracks[2]
    /\ fLog[1].similarity = TopScore
    /\ fLog[2].similarity = TopScore
    /\ fMatch # Null
    /\ fMatch[1].track = fTracks[1]

\* C22: calculateWordOverlap(set1, set2) is |set1 \cap set2| / |set1| (in
\* hundredths, rounded down) for non-empty sets and 0 when either is empty;
\* more words in set2 never lower it; it lies in [0, 1].
OverlapNormalizedByQuery ==
    fPc = "calculateWordOverlap returned"
        => LET m == Cardinality(fSet1 \cap fSet2)
               n == Cardinality(fSet1)
               v == fOverlap[1]
           IN  /\ (fSet1 = {} \/ fSet2 = {}) => v = 0
               /\ (fSet1 # {} /\ fSet2 # {})
                    => v * n <= 100 * m /\ 100 * m < (v + 1) * n
               /\ fOverlap[2] >= v
               /\ v \in 0..100
               /\ fOverlap[2] \in 0..100

\* words that the query does not have were added to a candidate set that
\* has half of the query's words, and the overlap stayed one half
ExtraWordsKeepOverlap ==
    /\ fPc = "calculateWordOverlap returned"
    /\ fExtra \ (fSet1 \cup fSet2) # {}
    /\ fOverlap[1] = 50
    /\ fOverlap[2] = 50

\* C23 as stated: the overlap of any word set with itself is 1, and the
\* overlap of the empty set with any set is 0.
SelfOverlapIsOne ==
    fPc = "calculateWordOverlap returned"
        => /\ fOverlap[3] = 100
           /\ fSet1 = {} => fOverlap[1] = 0

\* C23 amended: the overlap of a non-empty word set with itself is 1; the
\* overlap of the empty set with any set, itself included, is 0.
NonEmptySelfOverlapIsOne ==
    fPc = "calculateWordOverlap returned"
        => /\ fSet1 # {} => fOverlap[3] = 100
           /\ fSet1 = {} => fOverlap = <<0, 0, 0>>

\* a set of two words was compared with itself and with the empty set
SelfOverlapOfTwoWords ==
    /\ fPc = "calculateWordOverlap returned"
    /\ Cardinality(fSet1) = 2
    /\ fSet2 = {}
    /\ fOverlap[3] = 100
    /\ fOverlap[1] = 0

\* candidate k's normalized track name is inside the normalized title, or
\* the normalized title inside it
Contained(k) ==
    LET t == normalizeForComparison(fTitle)
        n == normalizeForComparison(fTracks[k].name)
    IN  includes(t, n) \/ includes(n, t)

\* the word overlap of the title with candidate k's name and artists
RawOverlap(k) ==
    calculateWordOverlap(
        getWords(normalizeForComparison(fTitle)),
        getWords(normalizeForComparison(fTracks[k].name) \o <<" ">> \o
                 normalizeForComparison(joinSpace(fTracks[k].artists))))

\* C24: a candidate whose normalized track name is contained in the
\* normalized title, or contains it, has an adjusted similarity of 0.7 or
\* more whatever its word overlap, and findBestTitleMatch then returns a
\* match.
ContainmentReachesFloor ==
    fPc = "findBestTitleMatch returned"
        => /\ \A k \in 1..Len(fTracks) :
                Contained(k) => fLog[k].similarity >= 70
           /\ (\E k \in 1..Len(fTracks) : Contained(k)) => fMatch # Null

\* the only candidate has a word overlap under 0.5, its name is inside the
\* title, and it is returned with 0.7
LowOverlapContainedReturned ==
    /\ fPc = "findBestTitleMatch returned"
    /\ Len(fTracks) = 1
    /\ RawOverlap(1) < 50
    /\ Contained(1)
    /\ fMatch # Null
    /\ fMatch[1].similarity = 70

\* candidate k's score before the description is looked at: the word
\* overlap, raised to 0.7 on containment
ScoreWithoutDescription(k) ==
    IF Contained(k) /\ RawOverlap(k) < 70 THEN 70 ELSE RawOverlap(k)

\* candidate k's normalized artist name has more than 3 characters and
\* occurs in the normalized first 2000 characters of the description
ArtistNamedInPrefix(k) ==
    LET artist == normalizeForComparison(joinSpace(fTracks[k].artists))
        prefix == SubSeq(fDescription, 1,
                         IF Len(fDescription) < 2000 THEN Len(fDescription) ELSE 2000)
    IN  Len(artist) > 3 /\ includes(normalizeForComparison(prefix), artist)

\* C25: a candidate's score is its score without the description plus 0.1
\* exactly when its artist name, longer than 3 characters, occurs in the
\* normalized first 2000 characters of the description, and is that score
\* unchanged otherwise, the track name occurring there or not.
BoostOnlyForArtistInDescription ==
    fPc = "findBestTitleMatch returned"
        => \A k \in 1..Len(fTracks) :
             /\ fLog[k].descriptionBoost = ArtistNamedInPrefix(k)
             /\ fLog[k].similarity =
                  ScoreWithoutDescription(k) + (IF ArtistNamedInPrefix(k) THEN 10 ELSE 0)

\* the description holds the track name and the two-letter artist name of
\* the first candidate, and the candidate's score has no boost
NameAndShortArtistGiveNoBoost ==
    /\ fPc = "findBestTitleMatch returned"
    /\ Len(fTracks) >= 1
    /\ fTracks[1].name # <<>>
    /\ Len(fTracks[1].artists) = 1
    /\ Len(fTracks[1].artists[1]) = 2
    /\ includes(normalizeForComparison(fDescription),
                normalizeForComparison(fTracks[1].name))
    /\ includes(normalizeForComparison(fDescription),
                normalizeForComparison(fTracks[1].artists[1]))
    /\ ~fLog[1].descriptionBoost
    /\ fLog[1].similarity = ScoreWithoutDescription(1)

\* C26: every match searchTrack returns carries a trackInfo whose artist
\* and song are both non-empty, whatever candidates the catalog lists.
ReturnedTrackInfoNonEmpty ==
    sPc = "done" /\ sResult.match # Null
        => /\ sResult.match[1].trackInfo.artist # <<>>
           /\ sResult.match[1].trackInfo.song # <<>>

(***************************************************************************)
(* TrackTitleNormalizer (TrackTitleNormalizer.ts): titles are sequences of  *)
(* one-character strings, the en and em dash written "ndash" and "mdash";   *)
(* positions are 1-based and a match is given by the position after it, 0   *)
(* when there is none.                                                      *)
(***************************************************************************)
\* the characters \w matches
WordChars ==
    { UpperCase[i] : i \in 1..Len(UpperCase) } \cup
    { LowerCase[i] : i \in 1..Len(LowerCase) } \cup
    {"0", "1", "2", "3", "4", "5", "6", "7", "8", "9", "_"}

\* the characters \d matches
Digits == {"0", "1", "2", "3", "4", "5", "6", "7", "8", "9"}

\* the classes [\(\[\{] and [\)\]\}]
OpenBrackets == {"(", "[", "{"}
CloseBrackets == {")", "]", "}"}

\* the class [-–—]
DashChars == {"-", "ndash", "mdash"}

\* String.prototype.toLowerCase
lowerCase(s) == [k \in 1..Len(s) |-> ToLower(s[k])]

\* the text from position i on
from(s, i) == SubSeq(s, i, Len(s))

\* the literal w, in any letter case (flag i), at position i: the position
\* after it, or 0
litEnd(s, i, w) ==
    IF i >= 1 /\ i + Len(w) - 1 <= Len(s) /\ lowerCase(SubSeq(s, i, i + Len(w) - 1)) = w
    THEN i + Len(w) ELSE 0

\* \b between positions p - 1 and p
boundaryAt(s, p) ==
    (p > 1 /\ p - 1 <= Len(s) /\ s[p - 1] \in WordChars)
        # (p >= 1 /\ p <= Len(s) /\ s[p] \in WordChars)

\* \s* from position i: the position after the run of whitespace
RECURSIVE wsEnd(_, _)
wsEnd(s, i) ==
    IF i <= Len(s) /\ s[i] \in WhiteSpace THEN wsEnd(s, i + 1) ELSE i

\* the smallest member of a non-empty set of positions
Least(S) == CHOOSE k \in S : \A j \in S : k <= j

\* the greatest member of a non-empty set of positions
Greatest(S) == CHOOSE k \in S : \A j \in S : k >= j

\* a test (RegExp.prototype.test) for any of the words, in any letter case
mentions(s, words) == \E w \in words : includes(lowerCase(s), w)

\* title.replace(/[–—]/g, "-")
replaceDashes(title) ==
    [k \in 1..Len(title) |-> IF title[k] \in {"ndash", "mdash"} THEN "-" ELSE title[k]]

\* value.replace(/\s+/g, " ")
RECURSIVE collapseWhitespace(_)
collapseWhitespace(value) ==
    IF value = <<>> THEN <<>>
    ELSE IF Head(value) \in WhiteSpace
         THEN <<" ">> \o collapseWhitespace(from(value, wsEnd(value, 1)))
         ELSE <<Head(value)>> \o collapseWhitespace(Tail(value))

\* normalizeWhitespace
normalizeWhitespace(value) == Trim(collapseWhitespace(value))

\* a segment that keeps the text after the pipe
extractPrimaryTitleSegment_KeepAll(value) == value

\* extractPrimaryTitleSegment: the text before the first pipe, trimmed
extractPrimaryTitleSegment(value) ==
    IF \A k \in 1..Len(value) : value[k] # "|"
    THEN value
    ELSE Trim(SubSeq(value, 1, Least({ k \in 1..Len(value) : value[k] = "|" }) - 1))

\* the start of the leftmost match of /\s*-\s*/, or 0
hyphenStart(s) ==
    LET starts == { i \in 1..Len(s) : wsEnd(s, i) <= Len(s) /\ s[wsEnd(s, i)] = "-" }
    IN  IF starts = {} THEN 0 ELSE Least(starts)

\* normalizedTitle.split(/\s*-\s*/)
RECURSIVE splitHyphen(_)
splitHyphen(s) ==
    LET i == hyphenStart(s)
    IN  IF i = 0 THEN <<s>>
        ELSE <<SubSeq(s, 1, i - 1)>> \o
             splitHyphen(from(s, wsEnd(s, wsEnd(s, i) + 1)))

\* parts.join(" - ")
RECURSIVE joinHyphen(_)
joinHyphen(parts) ==
    IF parts = <<>> THEN <<>>
    ELSE IF Len(parts) = 1 THEN parts[1]
    ELSE parts[1] \o <<" ", "-", " ">> \o joinHyphen(Tail(parts))

\* a match of /\b(feat|ft|featuring)\.?/i at position i: the alternatives
\* in their order, then the optional period
featuringEnd(s, i) ==
    LET word == IF litEnd(s, i, <<"f", "e", "a", "t">>) > 0 THEN litEnd(s, i, <<"f", "e", "a", "t">>)
                ELSE IF litEnd(s, i, <<"f", "t">>) > 0 THEN litEnd(s, i, <<"f", "t">>)
                ELSE litEnd(s, i, <<"f", "e", "a", "t", "u", "r", "i", "n", "g">>)
    IN  IF ~boundaryAt(s, i) \/ word = 0 THEN 0
        ELSE IF word <= Len(s) /\ s[word] = "." THEN word + 1 ELSE word

\* value.replace(/\b(feat|ft|featuring)\.?/gi, "feat.") from position i on
RECURSIVE replaceFeaturing(_, _)
replaceFeaturing(s, i) ==
    IF i > Len(s) THEN <<>>
    ELSE IF featuringEnd(s, i) > 0
         THEN <<"f", "e", "a", "t", ".">> \o replaceFeaturing(s, featuringEnd(s, i))
         ELSE <<s[i]>> \o replaceFeaturing(s, i + 1)

\* value.replace(/feat\.\./gi, "feat.") from position i on
RECURSIVE replaceDoublePeriod(_, _)
replaceDoublePeriod(s, i) ==
    IF i > Len(s) THEN <<>>
    ELSE IF litEnd(s, i, <<"f", "e", "a", "t", ".", ".">>) > 0
         THEN <<"f", "e", "a", "t", ".">> \o replaceDoublePeriod(s, i + 6)
         ELSE <<s[i]>> \o replaceDoublePeriod(s, i + 1)

\* standardizeFeaturing
standardizeFeaturing(value) ==
    replaceDoublePeriod(replaceFeaturing(value, 1), 1)

\* the alternatives of EXTRANEOUS_TAG_REGEX in the order the matcher tries
\* them, each the words that \s+ separates
TagPatterns ==
    << <<<<"o", "f", "f", "i", "c", "i", "a", "l">>, <<"m", "u", "s", "i", "c">>, <<"v", "i", "d", "e", "o">>>>,
       <<<<"o", "f", "f", "i", "c", "i", "a", "l">>, <<"v", "i", "d", "e", "o">>>>,
       <<<<"o", "f", "f", "i", "c", "i", "a", "l">>, <<"a", "u", "d", "i", "o">>>>,
       <<<<"o", "f", "f", "i", "c", "i", "a", "l">>>>,
       <<<<"l", "y", "r", "i", "c", "s">>>>,
       <<<<"l", "y", "r", "i", "c">>>>,
       <<<<"a", "u", "d", "i", "o">>>>,
       <<<<"v", "i", "s", "u", "a", "l", "i", "z", "e", "r">>>>,
       <<<<"m", "v">>>>,
       <<<<"l", "i", "v", "e">>>>,
       <<<<"p", "e", "r", "f", "o", "r", "m", "a", "n", "c", "e">>>>,
       <<<<"c", "o", "v", "e", "r">>>>,
       <<<<"k", "a", "r", "a", "o", "k", "e">>>>,
       <<<<"i", "n", "s", "t", "r", "u", "m", "e", "n", "t", "a", "l">>>>,
       <<<<"p", "r", "o", "d", ".">>>>,
       <<<<"p", "r", "o", "d">>>>,
       <<<<"r", "e", "m", "a", "s", "t", "e", "r", "e", "d">>>>,
       <<<<"r", "e", "m", "a", "s", "t", "e", "r">>>>,
       <<<<"h", "d">>>>,
       <<<<"h", "q">>>> >>

\* the words of a pattern from position i on, \s+ between them
RECURSIVE patternEnd(_, _, _)
patternEnd(s, i, words) ==
    LET e == litEnd(s, i, Head(words))
    IN  IF e = 0 THEN 0
        ELSE IF Len(words) = 1 THEN e
        ELSE IF wsEnd(s, e) = e THEN 0
        ELSE patternEnd(s, wsEnd(s, e), Tail(words))

\* a match of EXTRANEOUS_TAG_REGEX at position i: the first alternative that
\* matches between two word boundaries
tagEnd(s, i) ==
    LET fits == { k \in 1..Len(TagPatterns) :
                    /\ patternEnd(s, i, TagPatterns[k]) > 0
                    /\ boundaryAt(s, patternEnd(s, i, TagPatterns[k])) }
    IN  IF ~boundaryAt(s, i) \/ fits = {} THEN 0
        ELSE patternEnd(s, i, TagPatterns[Least(fits)])

\* shouldPreserveExtraneousTag for the match value[i .. e-1]
shouldPreserveExtraneousTag(value, i, e) ==
    LET opens == { k \in 1..(i - 1) : value[k] = "(" }
        openIndex == Greatest(opens)
        closes == { k \in openIndex..Len(value) : value[k] = ")" }
    IN  IF opens = {} THEN FALSE
        ELSE IF closes # {} /\ Least(closes) < i THEN FALSE
        ELSE mentions(SubSeq(value, openIndex + 1,
                             IF closes = {} THEN e - 1 ELSE Least(closes) - 1),
                      {<<"r", "e", "m", "i", "x">>, <<"m", "i", "x">>, <<"e", "d", "i", "t">>, <<"v", "e", "r", "s", "i", "o", "n">>})

\* normalized.replace(EXTRANEOUS_TAG_REGEX, ...) from position i on
RECURSIVE replaceTags(_, _)
replaceTags(s, i) ==
    IF i > Len(s) THEN <<>>
    ELSE IF tagEnd(s, i) > 0
         THEN (IF shouldPreserveExtraneousTag(s, i, tagEnd(s, i))
               THEN SubSeq(s, i, tagEnd(s, i) - 1) ELSE <<" ">>)
              \o replaceTags(s, tagEnd(s, i))
         ELSE <<s[i]>> \o replaceTags(s, i + 1)

\* isExtraneousDescriptor
isExtraneousDescriptor(value) ==
    LET normalized == Trim(value)
    IN  IF normalized = <<>> THEN TRUE
        ELSE IF mentions(normalized, {<<"r", "e", "m", "i", "x">>, <<"m", "i", "x">>, <<"e", "d", "i", "t">>, <<"v", "e", "r", "s", "i", "o", "n">>, <<"f", "e", "a", "t", ".">>})
             THEN FALSE
        ELSE \E i \in 1..Len(normalized) : tagEnd(normalized, i) > 0

\* the first closing bracket after position o, or 0
closeAfter(s, o) ==
    LET closes == { k \in (o + 1)..Len(s) : s[k] \in CloseBrackets }
    IN  IF closes = {} THEN 0 ELSE Least(closes)

\* a match of /\s*[\(\[\{]([^)\]\}]*)[\)\]\}]\s*/ at position i: the
\* position of its closing bracket, or 0
groupClose(s, i) ==
    LET o == wsEnd(s, i)
    IN  IF o <= Len(s) /\ s[o] \in OpenBrackets THEN closeAfter(s, o) ELSE 0

\* removeBracketedDescriptors from position i on
RECURSIVE replaceGroups(_, _)
replaceGroups(s, i) ==
    IF i > Len(s) THEN <<>>
    ELSE LET c == groupClose(s, i)
             inner == SubSeq(s, wsEnd(s, i) + 1, c - 1)
         IN  IF c > 0
             THEN (IF isExtraneousDescriptor(inner) THEN <<" ">>
                   ELSE <<" ", "(">> \o Trim(inner) \o <<")", " ">>)
                  \o replaceGroups(s, wsEnd(s, c + 1))
             ELSE <<s[i]>> \o replaceGroups(s, i + 1)

\* removeBracketedDescriptors
removeBracketedDescriptors(value) == replaceGroups(value, 1)

\* (?:19|20)\d{2} at position i: the position after it, or 0
yearEnd(s, i) ==
    IF /\ i >= 1 /\ i + 3 <= Len(s)
       /\ SubSeq(s, i, i + 1) \in {<<"1", "9">>, <<"2", "0">>}
       /\ s[i + 2] \in Digits /\ s[i + 3] \in Digits
    THEN i + 4 ELSE 0

\* value.replace(/\s*[-–—]\s*(?:19|20)\d{2}\s*$/g, " ")
stripDashYear(s) ==
    LET starts == { i \in 1..Len(s) :
                      LET d == wsEnd(s, i)
                      IN  /\ d <= Len(s) /\ s[d] \in DashChars
                          /\ yearEnd(s, wsEnd(s, d + 1)) > 0
                          /\ wsEnd(s, yearEnd(s, wsEnd(s, d + 1))) = Len(s) + 1 }
    IN  IF starts = {} THEN s
        ELSE SubSeq(s, 1, Least(starts) - 1) \o <<" ">>

\* value.replace(/\s+(?:19|20)\d{2}\s*$/g, " ")
stripSpaceYear(s) ==
    LET starts == { i \in 1..Len(s) :
                      /\ s[i] \in WhiteSpace
                      /\ yearEnd(s, wsEnd(s, i)) > 0
                      /\ wsEnd(s, yearEnd(s, wsEnd(s, i))) = Len(s) + 1 }
    IN  IF starts = {} THEN s
        ELSE SubSeq(s, 1, Least(starts) - 1) \o <<" ">>

\* a match of /\s*[\(\[\{]\s*(?:19|20)\d{2}\s*[\)\]\}]\s*/ at position i:
\* the position after it, or 0
yearGroupEnd(s, i) ==
    LET o == wsEnd(s, i)
        y == IF o <= Len(s) /\ s[o] \in OpenBrackets
             THEN yearEnd(s, wsEnd(s, o + 1)) ELSE 0
        c == wsEnd(s, y)
    IN  IF y > 0 /\ c <= Len(s) /\ s[c] \in CloseBrackets
        THEN wsEnd(s, c + 1) ELSE 0

\* the replacement of the bracketed years from position i on
RECURSIVE replaceYearGroups(_, _)
replaceYearGroups(s, i) ==
    IF i > Len(s) THEN <<>>
    ELSE IF yearGroupEnd(s, i) > 0
         THEN <<" ">> \o replaceYearGroups(s, yearGroupEnd(s, i))
         ELSE <<s[i]>> \o replaceYearGroups(s, i + 1)

\* stripYearSuffixes
stripYearSuffixes(value) ==
    replaceYearGroups(stripSpaceYear(stripDashYear(value)), 1)

\* a placement that leaves every credit where it stands
normalizeFeaturingPlacement_Never(value) == value

\* normalizeFeaturingPlacement; value is whitespace-normalized (line 101),
\* so the text (.+) captures runs to the end
normalizeFeaturingPlacement(value) ==
    LET starts == { i \in 1..Len(value) :
                      /\ boundaryAt(value, i)
                      /\ litEnd(value, i, <<"f", "e", "a", "t", ".">>) > 0
                      /\ wsEnd(value, i + 5) > i + 5
                      /\ wsEnd(value, i + 5) <= Len(value) }
        index == Least(starts)
        base == Trim(SubSeq(value, 1, index - 1))
        featuredArtists == Trim(from(value, wsEnd(value, index + 5)))
    IN  IF starts = {} \/ includes(value, <<"(", "f", "e", "a", "t", ".">>) THEN value
        ELSE IF base = <<>> THEN value
        ELSE base \o <<" ", "(", "f", "e", "a", "t", ".", " ">> \o featuredArtists \o <<")">>

\* normalizeArtistName
normalizeArtistName(name) == normalizeWhitespace(standardizeFeaturing(name))

\* normalizeTrackName
normalizeTrackName(name) ==
    normalizeWhitespace(
      normalizeFeaturingPlacement(
        normalizeWhitespace(
          stripYearSuffixes(
            replaceTags(
              removeBracketedDescriptors(standardizeFeaturing(name)), 1)))))

\* the normalizedTitle of parse and of normalize
cleanTitle(title) ==
    normalizeWhitespace(extractPrimaryTitleSegment(replaceDashes(title)))

\* a split that takes the last hyphen for the boundary
rawParts_LastHyphen(title) ==
    LET parts == splitHyphen(cleanTitle(title))
    IN  [artistRaw |-> joinHyphen(SubSeq(parts, 1, Len(parts) - 1)),
         songRaw |-> parts[Len(parts)]]

\* artistRaw = parts.shift(), songRaw = parts.join(" - ")
rawParts(title) ==
    LET parts == splitHyphen(cleanTitle(title))
    IN  [artistRaw |-> Head(parts), songRaw |-> joinHyphen(Tail(parts))]

\* a parse that returns what it extracted, empty or not
parse_KeepsEmpty(title) ==
    IF title = <<>> THEN Null
    ELSE IF Len(splitHyphen(cleanTitle(title))) < 2 THEN Null
    ELSE Some([artist |-> normalizeArtistName(rawParts(title).artistRaw),
               song |-> normalizeTrackName(rawParts(title).songRaw)])

\* TrackTitleNormalizer.parse: TrackInfo | null
parse(title) ==
    IF title = <<>> THEN Null
    ELSE IF Len(splitHyphen(cleanTitle(title))) < 2 THEN Null
    ELSE LET artist == normalizeArtistName(rawParts(title).artistRaw)
             song == normalizeTrackName(rawParts(title).songRaw)
         IN  IF artist = <<>> \/ song = <<>> THEN Null
             ELSE Some([artist |-> artist, song |-> song])

\* a normalize that fills artist and song from the raw parts
normalize_RawParts(title, description) ==
    IF title = <<>>
    THEN [rawTitle |-> <<>>, rawDescription |-> Null, artist |-> Null, song |-> Null]
    ELSE [rawTitle |-> cleanTitle(title), rawDescription |-> description,
          artist |-> Some(rawParts(title).artistRaw),
          song |-> Some(rawParts(title).songRaw)]

\* TrackTitleNormalizer.normalize: ParsedTrackData, absent fields null
normalize(title, description) ==
    IF title = <<>>
    THEN [rawTitle |-> <<>>, rawDescription |-> Null, artist |-> Null, song |-> Null]
    ELSE LET parsed == parse(title)
         IN  IF parsed # Null
             THEN [rawTitle |-> cleanTitle(title), rawDescription |-> description,
                   artist |-> Some(parsed[1].artist), song |-> Some(parsed[1].song)]
             ELSE [rawTitle |-> cleanTitle(title), rawDescription |-> description,
                   artist |-> Null, song |-> Null]

(***************************************************************************)
(* TrackTitleNormalizer applied to titles, and the message handler          *)
(* (index.ts) from the extracted title to the call of trackMatcher.match    *)
(***************************************************************************)
\* the text a title starts with: nothing, an artist, an artist with a
\* hyphen in the name, artists with a featuring marker
TnArtists ==
    { <<>>,
      <<"A", "b", "b", "a">>,
      <<"J", "a", "y", "-", "Z">>,
      <<"A", " ", "f", "t", ".", " ", "B">>,
      <<"A", " ", "f", "e", "a", "t", "u", "r", "i", "n", "g", " ", "B">> }

\* what follows it: nothing, a spaced hyphen, a spaced en dash, a space
TnSeparators ==
    { <<>>,
      <<" ", "-", " ">>,
      <<" ", "ndash", " ">>,
      <<" ">> }

\* the song text: nothing, a song, one with a hyphen, noise alone, bracketed
\* groups and a year, featuring credits, two years, a group and a noise word,
\* a group and a bare credit, a group with a noise word and a credit
TnSongs ==
    { <<>>,
      <<"H", "e", "y">>,
      <<"H", "e", "y", " ", "-", " ", "Y", "o">>,
      <<"O", "f", "f", "i", "c", "i", "a", "l", " ", "V", "i", "d", "e", "o">>,
      <<"H", "e", "y", " ", "(", "L", "i", "v", "e", " ", "R", "e", "m", "i", "x", ")", " ", "(", "O", "f", "f", "i", "c", "i", "a", "l", " ", "V", "i", "d", "e", "o", ")", " ", "2", "0", "1", "8">>,
      <<"H", "e", "y", " ", "f", "e", "a", "t", ".", " ", "Y", "o">>,
      <<"H", "e", "y", " ", "2", "0", "1", "8", " ", "2", "0", "1", "9">>,
      <<"H", "e", "y", " ", "(", "f", "e", "a", "t", ".", " ", "Y", "o", ")", " ", "L", "y", "r", "i", "c", "s">>,
      <<"H", "e", "y", " ", "(", "f", "e", "a", "t", ".", " ", "Y", "o", ")", " ", "f", "t", " ", "Z", "e", "d">>,
      <<"H", "e", "y", " ", "(", "L", "i", "v", "e", " ", "f", "e", "a", "t", ".", " ", "Y", "o", ")">> }

\* the end of a title: nothing, or a pipe and text with a hyphen and a pipe
TnSuffixes ==
    { <<>>,
      <<" ", "|", " ", "x", " ", "-", " ", "y", " ", "|", " ", "z">> }

\* the titles an extraction may give
TnTitles ==
    { a \o sep \o song \o suffix :
        a \in TnArtists, sep \in TnSeparators, song \in TnSongs, suffix \in TnSuffixes }

\* the descriptions an extraction may give: none, or a text
TnDescriptions == {Null, Some(<<"D">>)}

\* log("TrackTitleNormalizer: extracted", ...) of parse, null when parse
\* returns before it
extractedLog(title) ==
    IF title = <<>> \/ Len(splitHyphen(cleanTitle(title))) < 2 THEN Null
    ELSE Some([artistRaw |-> rawParts(title).artistRaw,
               songRaw |-> rawParts(title).songRaw,
               artist |-> normalizeArtistName(rawParts(title).artistRaw),
               song |-> normalizeTrackName(rawParts(title).songRaw)])

\* TrackTitleNormalizer.parse(title) is applied
TnParse ==
    /\ tnPc = "parse"
    /\ tnPc' = "normalize"
    /\ tnParsed' = parse(tnTitle)
    /\ tnLog' = extractedLog(tnTitle)
    /\ UNCHANGED <<tnTitle, tnDescription, tnData, hPc, hData, hMatchCalls>>
    /\ UNCHANGED notTn

\* TrackTitleNormalizer.normalize(title, description) is applied
TnNormalize ==
    /\ tnPc = "normalize"
    /\ tnPc' = "normalized"
    /\ tnData' = normalize(tnTitle, tnDescription)
    /\ UNCHANGED <<tnTitle, tnDescription, tnParsed, tnLog, hPc, hData, hMatchCalls>>
    /\ UNCHANGED notTn

\* the handler: no service resolves the text, or extractTrackData gives null
HNoTrackData ==
    /\ hPc = "message"
    /\ hPc' = "no track data"
    /\ UNCHANGED <<tnTitle, tnDescription, tnPc, tnParsed, tnLog, tnData, hData, hMatchCalls>>
    /\ UNCHANGED notTn

\* the handler: the extracted title and description are normalized
HNormalize ==
    /\ hPc = "message"
    /\ hPc' = "normalized"
    /\ hData' = normalize(tnTitle, tnDescription)
    /\ UNCHANGED <<tnTitle, tnDescription, tnPc, tnParsed, tnLog, tnData, hMatchCalls>>
    /\ UNCHANGED notTn

\* the handler: the chat has no integration
HNoIntegration ==
    /\ hPc = "normalized"
    /\ hPc' = "no integration"
    /\ UNCHANGED <<tnTitle, tnDescription, tnPc, tnParsed, tnLog, tnData, hData, hMatchCalls>>
    /\ UNCHANGED notTn

\* the handler: no connection has both a token and a playlist
HNoReadyConnection ==
    /\ hPc = "normalized"
    /\ hPc' = "no ready connection"
    /\ UNCHANGED <<tnTitle, tnDescription, tnPc, tnParsed, tnLog, tnData, hData, hMatchCalls>>
    /\ UNCHANGED notTn

\* the handler: trackMatcher.match(parsedData, ...) for a ready connection
HMatch ==
    /\ hPc = "normalized"
    /\ hPc' = "matching"
    /\ hMatchCalls' = Append(hMatchCalls, hData)
    /\ UNCHANGED <<tnTitle, tnDescription, tnPc, tnParsed, tnLog, tnData, hData>>
    /\ UNCHANGED notTn

InitTn ==
    /\ MatchIdle
    /\ getToken = [s \in ServiceNames |-> StaleToken]
    /\ TwoIdle
    /\ LaterIdle
    /\ SpIdle
    /\ FzIdle
    /\ tnTitle \in TnTitles
    /\ tnDescription \in TnDescriptions
    /\ tnPc = "parse"
    /\ tnParsed = <<>>
    /\ tnLog = <<>>
    /\ tnData = EmptyParsedData
    /\ hPc = "message"
    /\ hData = EmptyParsedData
    /\ hMatchCalls = <<>>

NextTn ==
    \/ TnParse
    \/ TnNormalize
    \/ HNoTrackData
    \/ HNormalize
    \/ HNoIntegration
    \/ HNoReadyConnection
    \/ HMatch

SpecNormalizer == InitTn /\ [][NextTn]_vars

(***************************************************************************)
(* Properties of TrackTitleNormalizer and of the handler's match call       *)
(***************************************************************************)
\* the title with its dashes made hyphens, cut at the first pipe
TruncatedTitle ==
    LET d == [k \in 1..Len(tnTitle) |->
                IF tnTitle[k] \in {"ndash", "mdash"} THEN "-" ELSE tnTitle[k]]
        pipes == { k \in 1..Len(d) : d[k] = "|" }
    IN  IF pipes = {} THEN d
        ELSE SubSeq(d, 1, (CHOOSE k \in pipes : \A j \in pipes : k <= j) - 1)

\* the number of hyphens of a text
Hyphens(s) == Cardinality({ k \in 1..Len(s) : s[k] = "-" })

\* a text without its whitespace
Unspaced(s) == SelectSeq(s, LAMBDA c : c \notin WhiteSpace)

\* C27: rawTitle is non-empty in every call of trackMatcher.match the
\* handler makes.
MatchedRawTitleNonEmpty ==
    \A k \in 1..Len(hMatchCalls) : hMatchCalls[k].rawTitle # <<>>

\* C28: parse returns null for a title that, its dashes made hyphens and
\* cut at the first pipe, has no hyphen; a result that is not null has a
\* non-empty artist and a non-empty song.
ParseNullOrBothNonEmpty ==
    tnPc \in {"normalize", "normalized"}
        => /\ Hyphens(TruncatedTitle) = 0 => tnParsed = Null
           /\ tnParsed # Null
                => /\ tnParsed[1].artist # <<>>
                   /\ tnParsed[1].song # <<>>
                   /\ Hyphens(TruncatedTitle) > 0

\* a title with an artist before its hyphen and a song that normalizes to
\* nothing, for which parse returned null
EmptySongRejected ==
    /\ tnPc \in {"normalize", "normalized"}
    /\ tnLog # Null
    /\ tnLog[1].artist # <<>>
    /\ tnLog[1].songRaw # <<>>
    /\ tnLog[1].song = <<>>
    /\ tnParsed = Null

\* C29: normalize returns a ParsedTrackData whose rawTitle is the title
\* with dashes made hyphens, cut at the first pipe and with whitespace
\* collapsed and trimmed; artist and song are both present or both absent,
\* present exactly when parse of the title is not null, with its values.
NormalizeAgreesWithParse ==
    tnPc = "normalized"
        => /\ Unspaced(tnData.rawTitle) = Unspaced(TruncatedTitle)
           /\ \A k \in 1..Len(tnData.rawTitle) :
                /\ tnData.rawTitle[k] \in WhiteSpace
                     => /\ tnData.rawTitle[k] = " "
                        /\ k > 1 /\ k < Len(tnData.rawTitle)
                        /\ tnData.rawTitle[k + 1] \notin WhiteSpace
                /\ tnData.rawTitle[k] \notin {"|", "ndash", "mdash"}
           /\ (tnData.artist = Null) = (tnData.song = Null)
           /\ (tnData.artist = Null) = (tnParsed = Null)
           /\ tnParsed # Null
                => /\ tnData.artist = Some(tnParsed[1].artist)
                   /\ tnData.song = Some(tnParsed[1].song)

\* a title with text after a pipe was normalized: the rawTitle is shorter
\* than the title and artist and song are those of parse
TruncatedAndParsed ==
    /\ tnPc = "normalized"
    /\ \E k \in 1..Len(tnTitle) : tnTitle[k] = "|"
    /\ tnData.rawTitle # <<>>
    /\ Len(tnData.rawTitle) < Len(tnTitle)
    /\ tnParsed # Null
    /\ tnData.artist # Null
    /\ tnData.song # Null

\* C30: the raw artist is the text before the first hyphen of the cleaned
\* title, and the raw song is all the text after that hyphen, its segments
\* rejoined with " - ".
FirstHyphenIsBoundary ==
    tnLog # Null
        => LET t == cleanTitle(tnTitle)
               h == CHOOSE k \in 1..Len(t) :
                      t[k] = "-" /\ \A j \in 1..(k - 1) : t[j] # "-"
               songRaw == tnLog[1].songRaw
           IN  /\ Hyphens(tnLog[1].artistRaw) = 0
               /\ Unspaced(tnLog[1].artistRaw) = Unspaced(SubSeq(t, 1, h - 1))
               /\ Unspaced(songRaw) = Unspaced(SubSeq(t, h + 1, Len(t)))
               /\ Hyphens(songRaw) = Hyphens(t) - 1
               /\ \A k \in 1..Len(songRaw) :
                    songRaw[k] = "-"
                        => /\ k > 1 /\ songRaw[k - 1] = " "
                           /\ k < Len(songRaw) /\ songRaw[k + 1] = " "

\* a title with three hyphens was split at the first one
LaterHyphensStayInSong ==
    /\ tnLog # Null
    /\ Hyphens(cleanTitle(tnTitle)) = 3
    /\ Hyphens(tnLog[1].artistRaw) = 0
    /\ tnLog[1].artistRaw # <<>>
    /\ Hyphens(tnLog[1].songRaw) = 2
    /\ tnParsed # Null

\* the text "{artist} - {song}" of a parse result
stringify(info) == info.artist \o <<" ", "-", " ">> \o info.song

TitleBeforePipe ==
    LET pipes == { k \in 1..Len(tnTitle) : tnTitle[k] = "|" }
    IN  IF pipes = {} THEN tnTitle ELSE SubSeq(tnTitle, 1, Least(pipes) - 1)

\* C32: the text after the first pipe has no influence: parse of a title
\* is parse of its text before the first pipe, and normalize gives the
\* rawTitle (and the artist and song) it gives for that text.
TextAfterPipeIgnored ==
    /\ tnPc \in {"normalize", "normalized"} => tnParsed = parse(TitleBeforePipe)
    /\ tnPc = "normalized"
         => tnData = normalize(TitleBeforePipe, tnDescription)

\* a title with a hyphen before its first pipe and a hyphen and a pipe
\* after it was parsed and normalized
PipedTitleParsed ==
    /\ tnPc = "normalized"
    /\ Len(TitleBeforePipe) < Len(tnTitle)
    /\ Hyphens(TitleBeforePipe) > 0
    /\ Hyphens(tnTitle) > Hyphens(TitleBeforePipe)
    /\ \E k \in (Len(TitleBeforePipe) + 2)..Len(tnTitle) : tnTitle[k] = "|"
    /\ tnParsed # Null
    /\ tnData.rawTitle # <<>>

\* the spelling w of the featuring marker as a whole word at position i,
\* with its period when it has one: the position after it, or 0
spellingEnd(s, i, w) ==
    LET e == litEnd(s, i, w)
    IN  IF ~boundaryAt(s, i) \/ e = 0 THEN 0
        ELSE IF e <= Len(s) /\ s[e] \in WordChars THEN 0
        ELSE IF e <= Len(s) /\ s[e] = "." THEN e + 1 ELSE e

\* a spelling of the featuring marker at position i: the position after
\* it, or 0
markerEnd(s, i) ==
    IF spellingEnd(s, i, <<"f", "e", "a", "t", "u", "r", "i", "n", "g">>) > 0
    THEN spellingEnd(s, i, <<"f", "e", "a", "t", "u", "r", "i", "n", "g">>)
    ELSE IF spellingEnd(s, i, <<"f", "e", "a", "t">>) > 0
    THEN spellingEnd(s, i, <<"f", "e", "a", "t">>)
    ELSE spellingEnd(s, i, <<"f", "t">>)

\* the text with each spelling of the marker made "feat." and all its
\* other characters kept
RECURSIVE markersRewritten(_, _)
markersRewritten(s, i) ==
    IF i > Len(s) THEN <<>>
    ELSE IF markerEnd(s, i) > 0
         THEN <<"f", "e", "a", "t", ".">> \o markersRewritten(s, markerEnd(s, i))
         ELSE <<s[i]>> \o markersRewritten(s, i + 1)

\* C33: in the artist and in the song every spelling of the featuring
\* marker ("feat", "ft", "featuring", in any letter case, with or without
\* a period) becomes exactly "feat." and the words around it stay as they
\* are.
FeaturingMarkersRewritten ==
    tnLog # Null
        => /\ tnLog[1].artist
                = normalizeWhitespace(markersRewritten(tnLog[1].artistRaw, 1))
           /\ standardizeFeaturing(tnLog[1].songRaw)
                = markersRewritten(tnLog[1].songRaw, 1)

\* the cleaned song segment normalizeFeaturingPlacement is given (lines
\* 83-101)
cleanedSong(name) ==
    normalizeWhitespace(
      stripYearSuffixes(
        replaceTags(removeBracketedDescriptors(standardizeFeaturing(name)), 1)))

\* the positions of s where a "feat." followed by whitespace and a name
\* starts
creditStarts(s) ==
    { i \in 1..Len(s) :
        /\ boundaryAt(s, i)
        /\ litEnd(s, i, <<"f", "e", "a", "t", ".">>) > 0
        /\ wsEnd(s, i + 5) > i + 5
        /\ wsEnd(s, i + 5) <= Len(s) }

\* the text holds a "(feat." group
hasFeatGroup(s) == includes(s, <<"(", "f", "e", "a", "t", ".">>)

\* the number of parentheses open at position i of s
parenDepth(s, i) ==
    Cardinality({ k \in 1..(i - 1) : s[k] = "(" })
        - Cardinality({ k \in 1..(i - 1) : s[k] = ")" })

\* the positions of s where a "feat." stands outside parentheses with
\* title text before it
bareFeats(s) ==
    { i \in 1..Len(s) :
        /\ boundaryAt(s, i)
        /\ litEnd(s, i, <<"f", "e", "a", "t", ".">>) > 0
        /\ parenDepth(s, i) <= 0
        /\ Trim(SubSeq(s, 1, i - 1)) # <<>> }

\* the first two parts of C34: a song with a "(feat." group is left as it
\* is, and in a song without one the first "feat. X" with title text
\* before it is moved into a trailing "(feat. X)"
PlacementOfCredit ==
    tnLog # Null
        => LET c == cleanedSong(tnLog[1].songRaw)
               i == Least(creditStarts(c))
               base == Trim(SubSeq(c, 1, i - 1))
           IN  /\ hasFeatGroup(c) => tnLog[1].song = c
               /\ ~hasFeatGroup(c) /\ creditStarts(c) # {} /\ base # <<>>
                    => tnLog[1].song
                         = base \o <<" ", "(", "f", "e", "a", "t", ".", " ">>
                                \o Trim(from(c, wsEnd(c, i + 5))) \o <<")">>

\* C34 as stated: the credit is placed as above, and no normalized song
\* holds a bare "feat." outside parentheses with title text before it.
FeaturingPlacedInGroup ==
    /\ PlacementOfCredit
    /\ tnLog # Null => bareFeats(tnLog[1].song) = {}

\* C34 amended: the credit is placed as above, and a normalized song holds
\* a bare "feat. X" outside parentheses with title text before it only
\* when it holds a "(feat." group as well or starts with the marker.
FeaturingPlacedUnlessGrouped ==
    /\ PlacementOfCredit
    /\ tnLog # Null
         => \A i \in bareFeats(tnLog[1].song) \cap creditStarts(tnLog[1].song) :
              \/ hasFeatGroup(tnLog[1].song)
              \/ litEnd(tnLog[1].song, 1, <<"f", "e", "a", "t", ".">>) > 0

\* a song with a bare credit after its title and no group was parsed: the
\* credit stands in a trailing group
CreditMovedIntoGroup ==
    /\ tnLog # Null
    /\ ~hasFeatGroup(cleanedSong(tnLog[1].songRaw))
    /\ bareFeats(cleanedSong(tnLog[1].songRaw)) # {}
    /\ tnLog[1].song # cleanedSong(tnLog[1].songRaw)
    /\ hasFeatGroup(tnLog[1].song)
    /\ bareFeats(tnLog[1].song) = {}
    /\ tnLog[1].song[Len(tnLog[1].song)] = ")"

\* the bracketed groups of s: the positions of an opening bracket and of
\* the first closing bracket after it, no opening bracket between them
groups(s) ==
    { g \in (1..Len(s)) \X (1..Len(s)) :
        /\ s[g[1]] \in OpenBrackets
        /\ g[2] = closeAfter(s, g[1])
        /\ \A k \in (g[1] + 1)..(g[2] - 1) : s[k] \notin OpenBrackets }

\* the terms that keep a group
KeepTerms ==
    {<<"r", "e", "m", "i", "x">>, <<"m", "i", "x">>, <<"e", "d", "i", "t">>,
     <<"v", "e", "r", "s", "i", "o", "n">>, <<"f", "e", "a", "t", ".">>}

\* the text holds a noise descriptor
hasNoise(s) == \E i \in 1..Len(s) : tagEnd(s, i) > 0

\* C35: in the song a bracketed group is removed when its content is a
\* noise descriptor that mentions none of remix, mix, edit, version and
\* feat.; a group whose content mentions one of them is kept with its
\* content verbatim, a noise term in it included; a trailing bare year is
\* stripped.
GroupsKeptVerbatim ==
    tnLog # Null
        => LET raw == tnLog[1].songRaw
               song == tnLog[1].song
           IN  /\ \A g \in groups(raw) :
                    LET content == SubSeq(raw, g[1] + 1, g[2] - 1)
                    IN  /\ hasNoise(content) /\ ~mentions(content, KeepTerms)
                             => ~includes(song, Trim(content))
                        /\ mentions(content, KeepTerms)
                             => includes(song, <<"(">> \o Trim(content) \o <<")">>)
               /\ Len(raw) >= 5 /\ yearEnd(raw, Len(raw) - 3) > 0
                  /\ raw[Len(raw) - 4] = " "
                    => song # raw /\ Len(song) < Len(raw)

(***************************************************************************)
(* Termination and call budget of TrackMatcher.match                        *)
(***************************************************************************)
\* the sum of the counts f keeps for the services of S
RECURSIVE SumOver(_, _)
SumOver(f, S) ==
    IF S = {} THEN 0
    ELSE LET s == CHOOSE x \in S : TRUE IN f[s] + SumOver(f, S \ {s})

\* the calls a match has made are within their budget: 4n searchTrack
\* calls, two for a provider in a pass, 2n refresher calls, one enrichment
\* call, two passes
WithinCallBudget ==
    /\ searchTotal <= 4 * Len(services)
    /\ \A s \in ServiceNames : searchCalls[s] <= 2
    /\ SumOver(refreshCalls, ServiceNames) <= 2 * Len(services)
    /\ smartCalls <= 1
    /\ pass <= 2

\* C37: every match call whose external calls each return or throw
\* terminates, having made at most 4n searchTrack calls (two for a provider
\* in a pass), at most 2n refresher calls and at most one enrichment call,
\* in at most two passes over the n providers.
MatchTerminatesWithinBudget ==
    /\ []WithinCallBudget
    /\ <>(pc = "done")

\* a match returned after two passes in which every provider was searched
\* twice and refreshed twice, with one enrichment call
BudgetExhausted ==
    /\ pc = "done"
    /\ pass = 2
    /\ searchTotal = 4 * Len(services)
    /\ SumOver(refreshCalls, ServiceNames) = 2 * Len(services)
    /\ smartCalls = 1

(***************************************************************************)
(* The outcome of SpotifyService.searchTrack                                *)
(***************************************************************************)
\* C38: searchTrack never returns an outcome with both a match and
\* needsReauth: with needsReauth the match is null, and with a match
\* needsReauth is absent.
MatchExcludesReauth ==
    /\ sResult.needsReauth => sResult.match = Null
    /\ sResult.match # Null => ~sResult.needsReauth

\* searchTrack returned needsReauth without a match from the title search
\* it fell back to after the strategies of the structured search
ReauthAfterStrategies ==
    /\ sPc = "done"
    /\ sResult.needsReauth
    /\ sResult.match = Null
    /\ Len(sRequests) > 1
    /\ sLast.kind = "title"
    /\ sResponses[Len(sResponses)] = "401"

(***************************************************************************)
(* SmartMatcher.match (SmartMatcher.ts) and the enrichment guard of         *)
(* TrackMatcher.match that reads its result.  A JSON value is a record of   *)
(* its type, its text and its number, the number in hundredths.             *)
(***************************************************************************)
\* the confidence given to a response without a numeric one
DEFAULT_CONFIDENCE == 50

Undefined == [type |-> "undefined", s |-> "", n |-> 0]
JsonNull == [type |-> "null", s |-> "", n |-> 0]
JsonString(x) == [type |-> "string", s |-> x, n |-> 0]
JsonNumber(k) == [type |-> "number", s |-> "", n |-> k]

\* the values the artist and the song of a response may have: the prompt
\* asks for a string or null
NameValues ==
    {Undefined, JsonNull, JsonString(""), JsonString(" "), JsonString("A1")}

\* the values the confidence of a response may have: none, null, a text, a
\* number below, in, at the ends of and above [0, 1]
ConfidenceValues ==
    {Undefined, JsonNull, JsonString("0.9")} \cup
    { JsonNumber(k) : k \in {-50, 0, 50, 59, 60, 100, 150} }

\* the objects JSON.parse may return
ParsedResponses ==
    [artist : NameValues, song : NameValues, confidence : ConfidenceValues]

\* !v for a JSON value
falsy(v) ==
    \/ v.type \in {"undefined", "null"}
    \/ v.type = "string" /\ v.s = ""
    \/ v.type = "number" /\ v.n = 0

Min(a, b) == IF a <= b THEN a ELSE b

\* a confidence taken from the response as it is
confidenceOf_Unclamped(parsed) ==
    IF parsed.confidence.type = "number" THEN parsed.confidence.n
    ELSE DEFAULT_CONFIDENCE

\* typeof parsed.confidence === 'number'
\*   ? Math.max(0, Math.min(1, parsed.confidence)) : 0.5
confidenceOf(parsed) ==
    IF parsed.confidence.type = "number"
    THEN Max(0, Min(100, parsed.confidence.n))
    ELSE DEFAULT_CONFIDENCE

\* match returns r
SmReturn(r) ==
    /\ mPc' = "returned"
    /\ mResult' = r

\* if (!this.model) return null
SmNoModel ==
    /\ mPc = "match"
    /\ ~mAvailable
    /\ SmReturn(Null)
    /\ UNCHANGED <<mAvailable, mResponse, notSm>>

\* await this.model.generateContent(...)
SmGenerateContent ==
    /\ mPc = "match"
    /\ mAvailable
    /\ mPc' = "generateContent"
    /\ UNCHANGED <<mAvailable, mResponse, mResult, notSm>>

\* generateContent rejects, or response.text() or JSON.parse throws: the
\* catch returns null
SmThrows ==
    /\ mPc = "generateContent"
    /\ \E k \in {"rejected", "invalid json"} : mResponse' = Some([kind |-> k])
    /\ SmReturn(Null)
    /\ UNCHANGED <<mAvailable, notSm>>

\* the text of the response holds no {...}
SmNoJson ==
    /\ mPc = "generateContent"
    /\ mResponse' = Some([kind |-> "no json"])
    /\ SmReturn(Null)
    /\ UNCHANGED <<mAvailable, notSm>>

\* the text of the response holds a JSON object
SmParsed ==
    /\ mPc = "generateContent"
    /\ \E parsed \in ParsedResponses :
         /\ mResponse' = Some([kind |-> "json", parsed |-> parsed])
         /\ IF falsy(parsed.artist) \/ falsy(parsed.song)
            THEN SmReturn(Null)
            ELSE SmReturn(Some([trackInfo |-> [artist |-> parsed.artist.s,
                                               song |-> parsed.song.s],
                                confidence |-> confidenceOf(parsed)]))
    /\ UNCHANGED <<mAvailable, notSm>>

\* TrackMatcher.match on the result: the second loop over the services is
\* entered when the result is there with a confidence of 0.6 or more
TmEnrichmentGuard ==
    /\ mPc = "returned"
    /\ mPc' = IF IsEnriched(mResult) THEN "second pass" ELSE "no second pass"
    /\ UNCHANGED <<mAvailable, mResponse, mResult, notSm>>

InitSmart ==
    /\ MatchIdle
    /\ getToken = [s \in ServiceNames |-> StaleToken]
    /\ TwoIdle
    /\ SpIdle
    /\ FzIdle
    /\ TnIdle
    /\ DbIdle
    /\ AtIdle
    /\ mAvailable \in BOOLEAN
    /\ mResponse = Null
    /\ mPc = "match"
    /\ mResult = Null

NextSmart ==
    \/ SmNoModel
    \/ SmGenerateContent
    \/ SmThrows
    \/ SmNoJson
    \/ SmParsed
    \/ TmEnrichmentGuard

SpecSmart == InitSmart /\ [][NextSmart]_vars

\* the response of the model was a JSON object without a numeric confidence
ConfidenceOmitted ==
    /\ mResponse # Null
    /\ mResponse[1].kind = "json"
    /\ mResponse[1].parsed.confidence.type # "number"

\* C39: SmartMatcher.match returns null or a result with a non-empty artist,
\* a non-empty song and a confidence within [0, 1]; for a response without
\* a numeric confidence the confidence is 0.5, below the threshold of 0.6,
\* and TrackMatcher.match makes no second pass over the providers.
SmartResultWellFormed ==
    /\ mResult # Null
         => /\ mResult[1].trackInfo.artist # ""
            /\ mResult[1].trackInfo.song # ""
            /\ mResult[1].confidence >= 0
            /\ mResult[1].confidence <= 100
    /\ mResult # Null /\ ConfidenceOmitted
         => /\ mResult[1].confidence = 50
            /\ mResult[1].confidence < SMART_MATCH_CONFIDENCE_THRESHOLD
            /\ mPc # "second pass"

\* a response with artist and song and no numeric confidence gave a result
\* with confidence 0.5, on which TrackMatcher.match made no second pass
DefaultConfidenceSkipsSecondPass ==
    /\ mPc = "no second pass"
    /\ ConfidenceOmitted
    /\ mResult # Null
    /\ mResult[1].confidence = 50

(***************************************************************************)
(* Database (Database.ts).  A record object is a reference, its position    *)
(* in dbHeap; the items array and the lookup Map hold references, so that   *)
(* "the same record" is the same reference.                                 *)
(***************************************************************************)
\* number of ids a record may have
NumIds == 2
\* number of record objects the calls may allocate
MaxObjects == 4

DbIds == 1..NumIds
DbPayloads == {"a", "b"}

\* the records T extends { telegramUserId: number }
DbRecords == [telegramUserId : DbIds, payload : DbPayloads]

\* Partial<Omit<T, "telegramUserId">>: no field, or the payload
DbUpdates == {Null} \cup { Some(x) : x \in DbPayloads }

\* this.lookup.has(id)
has(id) == id \in DOMAIN dbLookup

\* this.lookup.set(id, ref)
lookupSet(id, ref) ==
    [k \in DOMAIN dbLookup \cup {id} |-> IF k = id THEN ref ELSE dbLookup[k]]

\* this.items.findIndex(item => item.telegramUserId === id), 0 for -1
findIndex(id) ==
    LET found == { k \in 1..Len(dbItems) : dbHeap[dbItems[k]].telegramUserId = id }
    IN  IF found = {} THEN 0 ELSE CHOOSE k \in found : \A j \in found : k <= j

\* persist: the records of items written to the file
persisted(items, heap) == [k \in 1..Len(items) |-> heap[items[k]]]

\* an insert that pushes the record whether or not its id is stored
DbInsert_AlwaysPush ==
    /\ Len(dbHeap) < MaxObjects
    /\ \E record \in DbRecords :
         LET stored == Len(dbHeap) + 1
         IN  /\ dbHeap' = Append(dbHeap, record)
             /\ dbItems' = Append(dbItems, stored)
             /\ dbLookup' = lookupSet(record.telegramUserId, stored)
             /\ dbFile' = persisted(dbItems', dbHeap')
             /\ dbCall' = Some([op |-> "insert", id |-> record.telegramUserId])
             /\ dbOutcome' = "returned"
    /\ UNCHANGED notDb

\* insert(record)
DbInsert ==
    /\ Len(dbHeap) < MaxObjects
    /\ \E record \in DbRecords :
         LET stored == Len(dbHeap) + 1
             existingIndex == findIndex(record.telegramUserId)
         IN  /\ dbHeap' = Append(dbHeap, record)
             /\ dbItems' = IF existingIndex > 0
                           THEN [dbItems EXCEPT ![existingIndex] = stored]
                           ELSE Append(dbItems, stored)
             /\ dbLookup' = lookupSet(record.telegramUserId, stored)
             /\ dbFile' = persisted(dbItems', dbHeap')
             /\ dbCall' = Some([op |-> "insert", id |-> record.telegramUserId])
             /\ dbOutcome' = "returned"
    /\ UNCHANGED notDb

\* update(telegramUserId, updates) of an id the lookup does not hold
DbUpdateThrows ==
    /\ \E id \in DbIds :
         /\ ~has(id)
         /\ dbCall' = Some([op |-> "update", id |-> id])
    /\ dbOutcome' = "throws"
    /\ UNCHANGED <<dbItems, dbLookup, dbHeap, dbFile, notDb>>

\* update(telegramUserId, updates) of a stored id
DbUpdate ==
    /\ Len(dbHeap) < MaxObjects
    /\ \E id \in DbIds, updates \in DbUpdates :
         /\ has(id)
         /\ LET existing == dbHeap[dbLookup[id]]
                updated == Len(dbHeap) + 1
                index == findIndex(id)
            IN  /\ dbHeap' = Append(dbHeap,
                                    IF updates = Null THEN existing
                                    ELSE [existing EXCEPT !.payload = updates[1]])
                /\ dbItems' = IF index # 0
                              THEN [dbItems EXCEPT ![index] = updated]
                              ELSE dbItems
                /\ dbLookup' = lookupSet(id, updated)
                /\ dbFile' = persisted(dbItems', dbHeap')
         /\ dbCall' = Some([op |-> "update", id |-> id])
    /\ dbOutcome' = "returned"
    /\ UNCHANGED notDb

\* delete(telegramUserId) of an id the lookup does not hold
DbDeleteUnknown ==
    /\ \E id \in DbIds :
         /\ ~has(id)
         /\ dbCall' = Some([op |-> "delete", id |-> id])
    /\ dbOutcome' = "false"
    /\ UNCHANGED <<dbItems, dbLookup, dbHeap, dbFile, notDb>>

\* delete(telegramUserId) of a stored id
DbDelete ==
    /\ \E id \in DbIds :
         /\ has(id)
         /\ dbLookup' = [k \in DOMAIN dbLookup \ {id} |-> dbLookup[k]]
         /\ dbItems' = SelectSeq(dbItems,
                                 LAMBDA ref : dbHeap[ref].telegramUserId # id)
         /\ dbFile' = persisted(dbItems', dbHeap)
         /\ dbCall' = Some([op |-> "delete", id |-> id])
    /\ dbOutcome' = "true"
    /\ UNCHANGED <<dbHeap, notDb>>

\* the store after construction over no file
InitDb ==
    /\ MatchIdle
    /\ getToken = [s \in ServiceNames |-> StaleToken]
    /\ TwoIdle
    /\ SpIdle
    /\ FzIdle
    /\ TnIdle
    /\ SmIdle
    /\ AtIdle
    /\ dbItems = <<>>
    /\ dbLookup = <<>>
    /\ dbHeap = <<>>
    /\ dbCall = Null
    /\ dbOutcome = "constructed"
    /\ dbFile = <<>>

NextDb ==
    \/ DbInsert
    \/ DbUpdateThrows
    \/ DbUpdate
    \/ DbDeleteUnknown
    \/ DbDelete

SpecDatabase == InitDb /\ [][NextDb]_vars

\* the ids of the records of items
idsOfItems == { dbHeap[dbItems[k]].telegramUserId : k \in 1..Len(dbItems) }

\* items has one record for an id at most, and the lookup has the ids of
\* items, each mapped to the record items holds for it
StoreConsistent ==
    /\ \A j, k \in 1..Len(dbItems) :
         dbHeap[dbItems[j]].telegramUserId = dbHeap[dbItems[k]].telegramUserId
             => j = k
    /\ DOMAIN dbLookup = idsOfItems
    /\ \A k \in 1..Len(dbItems) :
         dbLookup[dbHeap[dbItems[k]].telegramUserId] = dbItems[k]

\* a call of update or delete with an id items does not hold throws or
\* returns false, and leaves items and lookup as they are
UnknownIdLeavesStore ==
    dbCall' # Null /\ dbCall'[1].op \in {"update", "delete"}
                   /\ dbCall'[1].id \notin idsOfItems
        => /\ dbOutcome' = IF dbCall'[1].op = "update" THEN "throws" ELSE "false"
           /\ UNCHANGED <<dbItems, dbLookup, dbHeap>>

\* C40: after any sequence of insert, update and delete on a store that
\* starts empty, items has at most one record for an id, the lookup has the
\* ids of items and maps each to the record items holds; update of an
\* unknown id throws and delete of an unknown id returns false, items and
\* lookup unchanged.
DatabaseConsistent ==
    /\ []StoreConsistent
    /\ [][UnknownIdLeavesStore]_vars

\* a record was inserted and replaced, and a delete of the other id
\* returned false
UnknownIdRejected ==
    /\ dbOutcome = "false"
    /\ dbCall[1].id \notin idsOfItems
    /\ Len(dbItems) = 1
    /\ Len(dbHeap) >= 2
    /\ dbItems[1] = Len(dbHeap)

(***************************************************************************)
(* The message handler's loop over the ready connections (index.ts, lines   *)
(* 1241-1338): trackMatcher.match, addTrack, refreshServiceToken, addTrack  *)
(* again, and the tracksAdded counter of the connection.                    *)
(***************************************************************************)
\* connection.tracksAdded?: number, undefined or a number
TracksAddedValues == {Null, Some(0), Some(3)}

\* connection.tracksAdded ?? 0
countOf(v) == IF v = Null THEN 0 ELSE v[1]

\* the uri of the match trackMatcher.match may return
MatchUris == {"u1", "u2"}

\* AddTrackResult: success and needsReauth (absent is FALSE)
AddTrackResults == [success : BOOLEAN, needsReauth : BOOLEAN]

\* the end of an iteration with the handler's result r: the counter is
\* incremented when result.success, and the loop goes on
AtFinish(r) ==
    /\ tracksAdded' = IF r.success
                      THEN [tracksAdded EXCEPT ![aIdx] = Some(countOf(@) + 1)]
                      ELSE tracksAdded
    /\ aResult' = Null
    /\ aIdx' = aIdx + 1
    /\ aPc' = "loop"

\* MusicService.get(connection.service) gives nothing: continue
AtNoService ==
    /\ aPc = "loop"
    /\ aIdx <= NumConnections
    /\ aIdx' = aIdx + 1
    /\ UNCHANGED <<aBefore, tracksAdded, aPc, aMatch, aCalls, aNewToken, aResult>>
    /\ UNCHANGED notAt

\* the next ready connection: trackMatcher.match is called
AtNextConnection ==
    /\ aPc = "loop"
    /\ aIdx <= NumConnections
    /\ aPc' = "match"
    /\ UNCHANGED <<aBefore, tracksAdded, aIdx, aMatch, aCalls, aNewToken, aResult>>
    /\ UNCHANGED notAt

\* the connections are exhausted: the handler returns
AtLoopEnd ==
    /\ aPc = "loop"
    /\ aIdx > NumConnections
    /\ aPc' = "done"
    /\ UNCHANGED <<aBefore, tracksAdded, aIdx, aMatch, aCalls, aNewToken, aResult>>
    /\ UNCHANGED notAt

\* trackMatcher.match returned null: continue
AtNoMatch ==
    /\ aPc = "match"
    /\ aMatch' = [aMatch EXCEPT ![aIdx] = "null"]
    /\ aIdx' = aIdx + 1
    /\ aPc' = "loop"
    /\ UNCHANGED <<aBefore, tracksAdded, aCalls, aNewToken, aResult>>
    /\ UNCHANGED notAt

\* trackMatcher.match returned a match: addTrack(match.uri, playlistId,
\* connection.accessToken) is called
AtMatched ==
    /\ aPc = "match"
    /\ \E uri \in MatchUris : aMatch' = [aMatch EXCEPT ![aIdx] = uri]
    /\ aPc' = "addTrack"
    /\ UNCHANGED <<aBefore, tracksAdded, aIdx, aCalls, aNewToken, aResult>>
    /\ UNCHANGED notAt

\* the first addTrack call returns: refreshServiceToken is called when
\* result.needsReauth, else the iteration ends
AtAddTrack ==
    /\ aPc = "addTrack"
    /\ \E r \in AddTrackResults :
         /\ aCalls' = [aCalls EXCEPT ![aIdx] =
                         Append(@, [uri |-> aMatch[aIdx], token |-> "accessToken",
                                    result |-> r])]
         /\ IF r.needsReauth
            THEN /\ aPc' = "refresh"
                 /\ aResult' = Some(r)
                 /\ UNCHANGED <<tracksAdded, aIdx>>
            ELSE AtFinish(r)
    /\ UNCHANGED <<aBefore, aMatch, aNewToken>>
    /\ UNCHANGED notAt

\* a refresh followed by a second addTrack call whatever it returned
AtRefresh_AlwaysRetries ==
    /\ aPc = "refresh"
    /\ \E newToken \in {"null", "newToken"} :
         aNewToken' = [aNewToken EXCEPT ![aIdx] = newToken]
    /\ aPc' = "addTrack again"
    /\ UNCHANGED <<tracksAdded, aIdx, aResult>>
    /\ UNCHANGED <<aBefore, aMatch, aCalls>>
    /\ UNCHANGED notAt

\* refreshServiceToken returns: addTrack is called again with the new
\* credential, or, without one, the iteration ends with the first result
AtRefresh ==
    /\ aPc = "refresh"
    /\ \E newToken \in {"null", "newToken"} :
         /\ aNewToken' = [aNewToken EXCEPT ![aIdx] = newToken]
         /\ IF newToken # "null"
            THEN /\ aPc' = "addTrack again"
                 /\ UNCHANGED <<tracksAdded, aIdx, aResult>>
            ELSE AtFinish(aResult[1])
    /\ UNCHANGED <<aBefore, aMatch, aCalls>>
    /\ UNCHANGED notAt

\* the second addTrack call returns: the iteration ends with its result
AtAddTrackAgain ==
    /\ aPc = "addTrack again"
    /\ \E r \in AddTrackResults :
         /\ aCalls' = [aCalls EXCEPT ![aIdx] =
                         Append(@, [uri |-> aMatch[aIdx], token |-> aNewToken[aIdx],
                                    result |-> r])]
         /\ AtFinish(r)
    /\ UNCHANGED <<aBefore, aMatch, aNewToken>>
    /\ UNCHANGED notAt

\* the handler at the head of its loop over the ready connections
InitHandler ==
    /\ MatchIdle
    /\ getToken = [s \in ServiceNames |-> StaleToken]
    /\ TwoIdle
    /\ SpIdle
    /\ FzIdle
    /\ TnIdle
    /\ SmIdle
    /\ DbIdle
    /\ aBefore \in [Connections -> TracksAddedValues]
    /\ tracksAdded = aBefore
    /\ aPc = "loop"
    /\ aIdx = 1
    /\ aMatch = [c \in Connections |-> "not called"]
    /\ aCalls = [c \in Connections |-> <<>>]
    /\ aNewToken = [c \in Connections |-> "not called"]
    /\ aResult = Null

NextHandler ==
    \/ AtNoService
    \/ AtNextConnection
    \/ AtLoopEnd
    \/ AtNoMatch
    \/ AtMatched
    \/ AtAddTrack
    \/ AtRefresh
    \/ AtAddTrackAgain

SpecHandler == InitHandler /\ [][NextHandler]_vars

\* the loop is past connection c
Processed(c) == aIdx > c

\* the last addTrack call for connection c succeeded
LastAddSucceeded(c) ==
    /\ aCalls[c] # <<>>
    /\ aCalls[c][Len(aCalls[c])].result.success

\* C36: for each ready connection addTrack is called only after
\* trackMatcher.match returned a match, with the uri of that match; at most
\* twice, the second time only when the first reported needsReauth and the
\* refresh gave a new credential; and tracksAdded is one more than before
\* when the last addTrack call succeeded, and as before otherwise.
AddTrackAfterMatch ==
    \A c \in Connections :
        /\ aCalls[c] # <<>>
             => /\ aMatch[c] \in MatchUris
                /\ \A k \in 1..Len(aCalls[c]) : aCalls[c][k].uri = aMatch[c]
        /\ c = aIdx /\ aPc \in {"addTrack", "refresh", "addTrack again"}
             => aMatch[c] \in MatchUris
        /\ Len(aCalls[c]) <= 2
        /\ Len(aCalls[c]) = 2
             => /\ aCalls[c][1].result.needsReauth
                /\ aNewToken[c] = "newToken"
                /\ aCalls[c][2].token = "newToken"
        /\ countOf(tracksAdded[c]) - countOf(aBefore[c])
             = IF Processed(c) /\ LastAddSucceeded(c) THEN 1 ELSE 0

\* the handler is done, and for a connection without a counter the first
\* addTrack call reported needsReauth, the refresh gave a credential, the
\* second call succeeded and the counter is 1
AddedAfterRefresh ==
    /\ aPc = "done"
    /\ \E c \in Connections :
         /\ aBefore[c] = Null
         /\ Len(aCalls[c]) = 2
         /\ aCalls[c][1].result.needsReauth
         /\ ~aCalls[c][1].result.success
         /\ aCalls[c][2].result.success
         /\ tracksAdded[c] = Some(1)

====
